---------------------------- MODULE Spec2Model ----------------------------
(***************************************************************************)
(* Client-side streaming core of the memory_agent frontend.                *)
(*                                                                         *)
(*   Spec         the resilience controller of hooks/useEnhancedStreaming  *)
(*                (createResilientStream, attemptReconnection, cleanup,    *)
(*                disconnect) under the event loop's interleavings         *)
(*   SpecDecoder  the read loop of streamFunction: incremental UTF-8       *)
(*                decoding, line splitting, `data: ` frames, JSON.parse    *)
(*   SpecReducer  the onData callbacks of EnhancedChatInterface.handleSubmit*)
(*                and ChatInterface.sendMessage applied to event scripts,  *)
(*                with React's update queue and the thinking-removal timer *)
(*   SpecTurn     one turn of a chat component on the hook                 *)
(*   SpecSession  session handlers of ChatInterface                        *)
(*   SpecProvider provider switch of LLMProviderDropdown / Selector        *)
(*   SpecSubmit   the submission guard of handleSubmit / sendMessage       *)
(*   SpecSink     the read loop with an onData that throws                 *)
(*   SpecRetry    createStreamWithRetry of useAdvancedStreaming            *)
(***************************************************************************)
EXTENDS Integers, Sequences, FiniteSets, TLC

VARIABLES
    \* ---- resilience controller (useEnhancedStreaming.ts) ----
    streamState,        \* useState<StreamState>
    abortControllerRef, \* id of the current AbortController, None when null
    aborted,            \* aborted[c]: controller c has been abort()ed
    retryTimeoutRef,    \* id of the last setTimeout, NoTimer when null
    pendingTimers,      \* timers set and neither fired nor cleared
    nextReq,            \* number of the next createResilientStream call
    pc,                 \* pc[r]: where request r's async code is suspended
    attempt,            \* attempt[r]: Initial, or currentRetryCount of the reconnection
    sig,                \* sig[r]: controller whose signal the in-flight fetch got
    callbacks,          \* <<r, name>>: the callbacks the latest step invoked for request r
    errorCalls,         \* onError invocations caused by request r
    completeCalls,      \* onComplete invocations of request r
    reconnectCalls,     \* onReconnect invocations caused by request r
    gracefulEnds,       \* response bodies of request r that ended with done=true
    scheduledDelays,    \* delays of the setTimeout calls of request r, in order
    cancelled,          \* disconnect() has returned since request r started
    \* ---- read loop / frame decoder (useEnhancedStreaming.ts 115-138) ----
    payload,            \* the bytes of the response body
    pos,                \* bytes handed out by reader.read() so far
    decoderLead,        \* TextDecoder holds the lead byte of a split code point
    buffer,             \* let buffer
    delivered,          \* values passed to onData, in order
    bodyDone,           \* reader.read() has returned done
    splits,             \* where chunk boundaries fell: "prefix", "json", "newline"
    sinkThrows,         \* the values for which the caller's onData throws
    loopThrew,          \* an exception has left the for loop of the read loop
    \* ---- conversation reducer (EnhancedChatInterface.tsx, ChatInterface.tsx) ----
    component,          \* which component's callback handles the events
    messages,           \* useState<Message[]>
    queue,              \* setMessages updaters React has not run yet
    thinkingMessage,    \* let thinkingMessage (closure of handleSubmit)
    assistantMessage,   \* let assistantMessage
    toolCallMessage,    \* let toolCallMessage
    removalTimers,      \* number of pending setTimeout callbacks of thinking_end
    nextId,             \* stands for generateMessageId's fresh ids
    script,             \* events the stream still has to deliver
    applied,            \* events delivered to the callback so far
    submitted,          \* handleSubmit has added the user message
    isLoading,          \* useState(false): isLoading
    \* ---- session state of ChatInterface (ChatInterface.tsx, SessionContext) ----
    isSessionActive,    \* useState(false): isSessionActive
    reported,           \* SessionContext.isSessionActive: last value given to onSessionStateChange
    effectPending,      \* the effect on [messages] has to run
    resets,             \* handleNewSession / updateSession / clearMemory calls so far
    \* ---- provider switch (LLMProviderDropdown, LLMProviderSelector) ----
    selector,           \* which component renders the provider list
    currentProvider,    \* ProviderContext.currentProvider
    switching,          \* provider of the switch request in flight, "" when none
    providerError,      \* useState<string | null>: error
    lastCall,           \* what the latest step of the provider component did
    \* ---- input of the chat components (EnhancedChatInterface, MessageInput) ----
    inputValue,         \* useState(''): inputValue / message, a sequence of characters
    submits,            \* submit events handled so far
    \* ---- createStreamWithRetry of useAdvancedStreaming (useAIChat.ts 136-215) ----
    connectionState,    \* useState: status, retryCount, lastError
    retryCount,         \* let retryCount of the current call
    maxRetriesArg,      \* the maxRetries argument of the current call
    attemptPc,          \* where attemptConnection is suspended
    delays,             \* delays of the setTimeout calls of the current call, in order
    connections,        \* fetch calls of the current call
    signalAborted,      \* options.signal of the current call has been aborted
    abortNamed,         \* the abort reason's message contains 'AbortError'
    thrown,             \* the error the current call rejected with, "" when none
    calls               \* createStreamWithRetry calls so far

ctrlVars == <<streamState, abortControllerRef, aborted, retryTimeoutRef, pendingTimers,
              nextReq, pc, attempt, sig, callbacks, errorCalls, completeCalls,
              reconnectCalls, gracefulEnds, scheduledDelays, cancelled>>
decVars == <<payload, pos, decoderLead, buffer, delivered, bodyDone, splits, sinkThrows, loopThrew>>
redVars == <<component, messages, queue, thinkingMessage, assistantMessage, toolCallMessage, removalTimers,
             nextId, script, applied, submitted, isLoading>>
sesVars == <<isSessionActive, reported, effectPending, resets>>
provVars == <<selector, currentProvider, switching, providerError, lastCall>>
inVars == <<inputValue, submits>>
advVars == <<connectionState, retryCount, maxRetriesArg, attemptPc, delays, connections,
             signalAborted, abortNamed, thrown, calls>>
vars == <<ctrlVars, decVars, redVars, sesVars, provVars, inVars, advVars>>

-----------------------------------------------------------------------------
(* Bounds *)
NumRequests == 2    \* createResilientStream calls on one hook instance
MaxPieces == 3      \* pieces a response body is composed of
MaxScriptLen == 3   \* events of a free event script
MaxTurnEvents == 2  \* events the backend delivers in a turn on the hook
MaxResets == 1      \* session resets of ChatInterface
MaxSubmits == 3     \* submit events on a chat component
MaxCalls == 2       \* createStreamWithRetry calls on one hook instance

(* Program constants *)
maxRetries == 3
retryDelay == 1000

Requests == 1..NumRequests
None == 0
Initial == -1
NoTimer == <<0, 0>>

\* a closure variable holding null
NoMessage ==
    [id |-> None, type |-> "", content |-> <<>>, isTemporary |-> FALSE,
     isStreaming |-> FALSE, metadata |-> <<>>, shared |-> FALSE]
IsNull(m) == m.id = None

-----------------------------------------------------------------------------
(* Resilience controller *)

InitStreamState ==
    [isConnected |-> FALSE, isReconnecting |-> FALSE, retryCount |-> 0, error |-> "null"]

\* Math.pow(2, currentRetryCount) scaled by retryDelay
BackoffDelay(currentRetryCount) == retryDelay * (2 ^ currentRetryCount)

\* the comparison off by one: one reconnection too many
RetriesExhaustedOffByOne(currentRetryCount) == currentRetryCount > maxRetries

\* if (currentRetryCount >= maxRetries)
RetriesExhausted(currentRetryCount) == currentRetryCount >= maxRetries

\* err.message.includes('fetch') || err.message.includes('network')
\* "network": the browser's TypeError of a failed fetch or read, whose message
\* contains one of the two words in some browsers and not in others (the
\* input retryable); "http": `HTTP error! status: N`; "nobody": 'No response
\* body'; "abort": the AbortError of an aborted fetch.
IsNetworkMessage(kind, retryable) == kind = "network" /\ retryable

\* onComplete in a finally position: invoked on the aborted return as well
CallsOnCompleteAlways(outcome) == outcome \in {"done", "abort"}

\* the read loop leaves through onComplete only when read() returned done
CallsOnComplete(outcome) == outcome = "done"

\* an in-flight fetch or read whose signal has been aborted: its promise is
\* rejected and the continuation is queued as a microtask
AbortPending(r) == pc[r] \in {"fetching", "reading"} /\ sig[r] # None /\ aborted[sig[r]]
NoMicrotask == \A r \in Requests : ~AbortPending(r)

\* cleanup()
CleanupAborted == IF abortControllerRef # None
                  THEN [aborted EXCEPT ![abortControllerRef] = TRUE]
                  ELSE aborted
CleanupTimers == IF retryTimeoutRef # NoTimer
                 THEN pendingTimers \ {retryTimeoutRef}
                 ELSE pendingTimers

\* attemptReconnection(streamFunction, k), called with the state st
AttemptReconnection(r, k, st) ==
    IF RetriesExhausted(k)
    THEN /\ streamState' = [st EXCEPT !.isReconnecting = FALSE, !.error = "exhausted"]
         /\ pc' = [pc EXCEPT ![r] = "failed"]
         /\ UNCHANGED <<pendingTimers, retryTimeoutRef, scheduledDelays, attempt>>
    ELSE /\ streamState' = [st EXCEPT !.isReconnecting = TRUE, !.retryCount = k + 1]
         /\ pendingTimers' = pendingTimers \cup {<<r, k>>}
         /\ retryTimeoutRef' = <<r, k>>
         /\ scheduledDelays' = [scheduledDelays EXCEPT ![r] = Append(@, BackoffDelay(k))]
         /\ attempt' = [attempt EXCEPT ![r] = k]
         /\ pc' = [pc EXCEPT ![r] = "backoff"]

\* a timer callback whose catch reports the fault before it retries
StreamThrewNotifying(r, kind, retryable) ==
    LET st == [streamState EXCEPT !.isConnected = FALSE, !.error = kind] IN
    /\ errorCalls' = [errorCalls EXCEPT ![r] = @ + 1]
    /\ callbacks' = {<<r, "onError">>}
    /\ IF attempt[r] = Initial
       THEN IF IsNetworkMessage(kind, retryable)
            THEN AttemptReconnection(r, 0, st)
            ELSE /\ streamState' = st
                 /\ pc' = [pc EXCEPT ![r] = "returned"]
                 /\ UNCHANGED <<pendingTimers, retryTimeoutRef, scheduledDelays, attempt>>
       ELSE AttemptReconnection(r, attempt[r] + 1, streamState)
    /\ UNCHANGED reconnectCalls

\* streamFunction() of request r threw an error of the given kind
StreamThrew(r, kind, retryable) ==
    IF attempt[r] = Initial
    THEN \* catch of createResilientStream (147-158)
         LET st == [streamState EXCEPT !.isConnected = FALSE, !.error = kind] IN
         /\ errorCalls' = [errorCalls EXCEPT ![r] = @ + 1]
         /\ callbacks' = {<<r, "onError">>}
         /\ IF IsNetworkMessage(kind, retryable)
            THEN AttemptReconnection(r, 0, st)
            ELSE /\ streamState' = st
                 /\ pc' = [pc EXCEPT ![r] = "returned"]
                 /\ UNCHANGED <<pendingTimers, retryTimeoutRef, scheduledDelays, attempt>>
         /\ UNCHANGED reconnectCalls
    ELSE \* catch of the timer callback (82-85)
         /\ AttemptReconnection(r, attempt[r] + 1, streamState)
         /\ callbacks' = {}
         /\ UNCHANGED <<errorCalls, reconnectCalls>>

\* streamFunction() of request r returned normally, having invoked the
\* callbacks cbs on its way out
StreamReturned(r, cbs) ==
    /\ pc' = [pc EXCEPT ![r] = "returned"]
    /\ IF attempt[r] = Initial
       THEN /\ callbacks' = cbs
            /\ UNCHANGED <<streamState, reconnectCalls>>
       ELSE /\ streamState' = [isConnected |-> TRUE, isReconnecting |-> FALSE,
                               retryCount |-> 0, error |-> "null"]
            /\ reconnectCalls' = [reconnectCalls EXCEPT ![r] = @ + 1]
            /\ callbacks' = cbs \cup {<<r, "onReconnect">>}
    /\ UNCHANGED <<pendingTimers, retryTimeoutRef, scheduledDelays, attempt, errorCalls>>

\* createResilientStream(url, options, onData, onComplete) up to its first await
CreateResilientStream ==
    /\ nextReq <= NumRequests
    /\ aborted' = CleanupAborted
    /\ pendingTimers' = CleanupTimers
    /\ retryTimeoutRef' = NoTimer
    /\ abortControllerRef' = nextReq
    /\ sig' = [sig EXCEPT ![nextReq] = nextReq]
    /\ pc' = [pc EXCEPT ![nextReq] = "fetching"]
    /\ attempt' = [attempt EXCEPT ![nextReq] = Initial]
    /\ nextReq' = nextReq + 1
    /\ callbacks' = {}
    /\ UNCHANGED <<streamState, errorCalls, completeCalls, reconnectCalls,
                   gracefulEnds, scheduledDelays, cancelled>>

\* disconnect()
Disconnect ==
    /\ nextReq > 1
    /\ aborted' = CleanupAborted
    /\ pendingTimers' = CleanupTimers
    /\ retryTimeoutRef' = NoTimer
    /\ abortControllerRef' = None
    /\ streamState' = InitStreamState
    /\ cancelled' = [r \in Requests |-> cancelled[r] \/ r < nextReq]
    /\ callbacks' = {}
    /\ UNCHANGED <<nextReq, pc, attempt, sig, errorCalls, completeCalls,
                   reconnectCalls, gracefulEnds, scheduledDelays>>

\* fetch() rejects: connection refused, reset, timeout
FetchFails(r) ==
    /\ pc[r] = "fetching" /\ NoMicrotask
    /\ \E retryable \in BOOLEAN : StreamThrew(r, "network", retryable)
    /\ UNCHANGED <<abortControllerRef, aborted, nextReq, sig, completeCalls,
                   gracefulEnds, cancelled>>

\* fetch() resolves with !response.ok, or with a response without body
FetchBadResponse(r) ==
    /\ pc[r] = "fetching" /\ NoMicrotask
    /\ \E kind \in {"http", "nobody"} : StreamThrew(r, kind, FALSE)
    /\ UNCHANGED <<abortControllerRef, aborted, nextReq, sig, completeCalls,
                   gracefulEnds, cancelled>>

\* fetch() resolves with an ok response that has a body (113)
FetchOk(r) ==
    /\ pc[r] = "fetching" /\ NoMicrotask
    /\ streamState' = [streamState EXCEPT !.isConnected = TRUE, !.error = "null"]
    /\ pc' = [pc EXCEPT ![r] = "reading"]
    /\ callbacks' = {}
    /\ UNCHANGED <<abortControllerRef, aborted, retryTimeoutRef, pendingTimers, nextReq,
                   attempt, sig, errorCalls, completeCalls, reconnectCalls,
                   gracefulEnds, scheduledDelays, cancelled>>

\* reader.read() resolves with a chunk: onData(data) for each frame that the
\* chunk completes, if any
ReadChunk(r) ==
    /\ pc[r] = "reading" /\ NoMicrotask
    /\ \E frames \in BOOLEAN : callbacks' = IF frames THEN {<<r, "onData">>} ELSE {}
    /\ UNCHANGED <<streamState, abortControllerRef, aborted, retryTimeoutRef, pendingTimers,
                   nextReq, pc, attempt, sig, errorCalls, completeCalls, reconnectCalls,
                   gracefulEnds, scheduledDelays, cancelled>>

\* reader.read() resolves with done: break, onComplete?.(), return
ReadDone(r) ==
    /\ pc[r] = "reading" /\ NoMicrotask
    /\ gracefulEnds' = [gracefulEnds EXCEPT ![r] = @ + 1]
    /\ completeCalls' = [completeCalls EXCEPT ![r] = IF CallsOnComplete("done") THEN @ + 1 ELSE @]
    /\ StreamReturned(r, IF CallsOnComplete("done") THEN {<<r, "onComplete">>} ELSE {})
    /\ UNCHANGED <<abortControllerRef, aborted, nextReq, sig, cancelled>>

\* reader.read() rejects with a network error: rethrown by the inner catch
ReadFails(r) ==
    /\ pc[r] = "reading" /\ NoMicrotask
    /\ \E retryable \in BOOLEAN : StreamThrew(r, "network", retryable)
    /\ UNCHANGED <<abortControllerRef, aborted, nextReq, sig, completeCalls,
                   gracefulEnds, cancelled>>

\* the aborted fetch() rejects with an AbortError; line 99 is outside the try
FetchAborted(r) ==
    /\ pc[r] = "fetching" /\ AbortPending(r)
    /\ StreamThrew(r, "abort", FALSE)
    /\ UNCHANGED <<abortControllerRef, aborted, nextReq, sig, completeCalls,
                   gracefulEnds, cancelled>>

\* the aborted reader.read() rejects with an AbortError: return (139-142)
ReadAborted(r) ==
    /\ pc[r] = "reading" /\ AbortPending(r)
    /\ completeCalls' = [completeCalls EXCEPT ![r] = IF CallsOnComplete("abort") THEN @ + 1 ELSE @]
    /\ StreamReturned(r, IF CallsOnComplete("abort") THEN {<<r, "onComplete">>} ELSE {})
    /\ UNCHANGED <<abortControllerRef, aborted, nextReq, sig, gracefulEnds, cancelled>>

\* the setTimeout callback of attemptReconnection runs: streamFunction() up
\* to its fetch, which reads abortControllerRef.current?.signal now
TimerFires(r) ==
    /\ pc[r] = "backoff" /\ NoMicrotask
    /\ <<r, attempt[r]>> \in pendingTimers
    /\ pendingTimers' = pendingTimers \ {<<r, attempt[r]>>}
    /\ sig' = [sig EXCEPT ![r] = abortControllerRef]
    /\ pc' = [pc EXCEPT ![r] = "fetching"]
    /\ callbacks' = {}
    /\ UNCHANGED <<streamState, abortControllerRef, aborted, retryTimeoutRef, nextReq,
                   attempt, errorCalls, completeCalls, reconnectCalls,
                   gracefulEnds, scheduledDelays, cancelled>>

CtrlInit ==
    /\ streamState = InitStreamState
    /\ abortControllerRef = None
    /\ aborted = [c \in Requests |-> FALSE]
    /\ retryTimeoutRef = NoTimer
    /\ pendingTimers = {}
    /\ nextReq = 1
    /\ pc = [r \in Requests |-> "idle"]
    /\ attempt = [r \in Requests |-> Initial]
    /\ sig = [r \in Requests |-> None]
    /\ callbacks = {}
    /\ errorCalls = [r \in Requests |-> 0]
    /\ completeCalls = [r \in Requests |-> 0]
    /\ reconnectCalls = [r \in Requests |-> 0]
    /\ gracefulEnds = [r \in Requests |-> 0]
    /\ scheduledDelays = [r \in Requests |-> <<>>]
    /\ cancelled = [r \in Requests |-> FALSE]

DecIdle ==
    /\ payload = <<>> /\ pos = 0 /\ decoderLead = FALSE
    /\ buffer = <<>> /\ delivered = <<>> /\ bodyDone = FALSE /\ splits = {}
    /\ sinkThrows = {} /\ loopThrew = FALSE

RedIdle ==
    /\ component = "Enhanced" /\ queue = <<>>
    /\ messages = <<>> /\ thinkingMessage = NoMessage /\ assistantMessage = NoMessage
    /\ toolCallMessage = NoMessage /\ removalTimers = 0 /\ nextId = 1
    /\ script = <<>> /\ applied = <<>> /\ submitted = FALSE /\ isLoading = FALSE

SesIdle ==
    /\ isSessionActive = FALSE /\ reported = FALSE /\ effectPending = FALSE /\ resets = 0

ProvIdle ==
    /\ selector = "Dropdown" /\ currentProvider = "google_gemini" /\ switching = ""
    /\ providerError = "null" /\ lastCall = {}

InIdle ==
    /\ inputValue = <<>> /\ submits = 0

AdvIdle ==
    /\ connectionState = [status |-> "disconnected", retryCount |-> 0, lastError |-> ""]
    /\ retryCount = 0 /\ maxRetriesArg = 0 /\ attemptPc = "idle" /\ delays = <<>>
    /\ connections = 0 /\ signalAborted = FALSE /\ abortNamed = FALSE /\ thrown = ""
    /\ calls = 0

Init == CtrlInit /\ DecIdle /\ RedIdle /\ SesIdle /\ ProvIdle /\ InIdle /\ AdvIdle

Next ==
    \/ CreateResilientStream /\ UNCHANGED <<decVars, redVars, sesVars, provVars, inVars, advVars>>
    \/ Disconnect /\ UNCHANGED <<decVars, redVars, sesVars, provVars, inVars, advVars>>
    \/ \E r \in Requests : FetchFails(r) /\ UNCHANGED <<decVars, redVars, sesVars, provVars, inVars, advVars>>
    \/ \E r \in Requests : FetchBadResponse(r) /\ UNCHANGED <<decVars, redVars, sesVars, provVars, inVars, advVars>>
    \/ \E r \in Requests : FetchOk(r) /\ UNCHANGED <<decVars, redVars, sesVars, provVars, inVars, advVars>>
    \/ \E r \in Requests : ReadChunk(r) /\ UNCHANGED <<decVars, redVars, sesVars, provVars, inVars, advVars>>
    \/ \E r \in Requests : ReadDone(r) /\ UNCHANGED <<decVars, redVars, sesVars, provVars, inVars, advVars>>
    \/ \E r \in Requests : ReadFails(r) /\ UNCHANGED <<decVars, redVars, sesVars, provVars, inVars, advVars>>
    \/ \E r \in Requests : FetchAborted(r) /\ UNCHANGED <<decVars, redVars, sesVars, provVars, inVars, advVars>>
    \/ \E r \in Requests : ReadAborted(r) /\ UNCHANGED <<decVars, redVars, sesVars, provVars, inVars, advVars>>
    \/ \E r \in Requests : TimerFires(r) /\ UNCHANGED <<decVars, redVars, sesVars, provVars, inVars, advVars>>

Spec == Init /\ [][Next]_vars

TypeOK ==
    /\ streamState.retryCount \in 0..maxRetries
    /\ nextReq \in 1..(NumRequests + 1)
    /\ \A r \in Requests : pc[r] \in {"idle", "fetching", "reading", "backoff", "returned", "failed"}

-----------------------------------------------------------------------------
(* Properties of the resilience controller *)

InFlight(r) == pc[r] \in {"fetching", "reading"}
Active(r) == InFlight(r) /\ ~AbortPending(r)

\* request r's in-flight attempt ends in this step otherwise than by a
\* graceful end of the body or by the silent return of an aborted read
FaultStep(r) ==
    /\ InFlight(r) /\ ~InFlight(r)'
    /\ gracefulEnds'[r] = gracefulEnds[r]
    /\ ~(pc[r] = "reading" /\ AbortPending(r))

\* request r's in-flight attempt faults in this step for a transport reason
\* (connection failure, HTTP status, missing body), not because of an abort
TransportFaultStep(r) == FaultStep(r) /\ ~AbortPending(r)

\* C2 - Cancellation silence: once disconnect() has returned, no onData,
\* onError or onComplete callback of a request started before it is invoked.
CancellationSilence ==
    [][\A r \in Requests : cancelled[r] =>
          \A name \in {"onData", "onError", "onComplete"} : <<r, name>> \notin callbacks']_vars

\* C3 - Backoff law: a request all of whose attempts faulted (no graceful end,
\* no abort) has scheduled its reconnections after 1000, 2000 and 4000 ms, in
\* that order, and has ended in Failed.
BackoffLaw ==
    \A r \in Requests :
        (/\ pc[r] \in {"returned", "failed"}
         /\ gracefulEnds[r] = 0
         /\ \A c \in Requests : ~aborted[c])
        => /\ scheduledDelays[r] = <<retryDelay, 2 * retryDelay, 4 * retryDelay>>
           /\ pc[r] = "failed"

\* C4 - Retry exhaustion: a fault of the reconnection attempt number maxRetries
\* puts the controller in Failed (isReconnecting false, error set) with no
\* timer of the request pending, and a request that has failed stays failed:
\* it gets no further timer and opens no further session.
RetryExhaustion ==
    [][\A r \in Requests :
          /\ (FaultStep(r) /\ attempt[r] + 1 >= maxRetries) =>
                /\ pc'[r] = "failed"
                /\ streamState'.isReconnecting = FALSE
                /\ streamState'.error = "exhausted"
                /\ \A k \in 0..(maxRetries + 1) : <<r, k>> \notin pendingTimers'
                /\ scheduledDelays'[r] = scheduledDelays[r]
          /\ pc[r] = "failed" =>
                /\ pc'[r] = "failed"
                /\ \A k \in 0..(maxRetries + 1) : <<r, k>> \notin pendingTimers'
                /\ scheduledDelays'[r] = scheduledDelays[r]]_vars

\* a request has exhausted its retries
RetryExhaustionWitness ==
    \E r \in Requests : pc[r] = "failed" /\ Len(scheduledDelays[r]) = maxRetries

\* C5 - every transport fault of the initial attempt (connection failure, HTTP
\* status, missing body) puts the controller in Reconnecting and schedules a
\* new attempt.
InitialFaultRetries ==
    [][\A r \in Requests :
          (TransportFaultStep(r) /\ attempt[r] = Initial) =>
              /\ pc'[r] = "backoff"
              /\ streamState'.isReconnecting
              /\ <<r, 0>> \in pendingTimers']_vars

\* C6 - onComplete of a request has been invoked exactly once if one of its
\* attempts ended gracefully, and not at all otherwise.
CompleteExactlyOnce ==
    \A r \in Requests :
        completeCalls[r] = IF gracefulEnds[r] >= 1 THEN 1 ELSE 0

\* a reconnection attempt of a request ended gracefully
CompleteExactlyOnceWitness ==
    \E r \in Requests :
        /\ gracefulEnds[r] = 1 /\ completeCalls[r] = 1
        /\ scheduledDelays[r] # <<>> /\ pc[r] = "returned"

\* C7 - when a stream ends gracefully, retryCount is 0 and isReconnecting is
\* false in the resulting state.
GracefulEndResets ==
    [][\A r \in Requests :
          gracefulEnds'[r] > gracefulEnds[r] =>
              /\ streamState'.retryCount = 0
              /\ streamState'.isReconnecting = FALSE]_vars

\* C8 - the continuation of an aborted fetch or read does not invoke onError,
\* does not set streamState.error, does not increase retryCount and does not
\* schedule a retry.
AbortIsCancellation ==
    [][\A r \in Requests :
          (AbortPending(r) /\ pc'[r] # pc[r]) =>
              /\ errorCalls' = errorCalls
              /\ streamState'.error \in {streamState.error, "null"}
              /\ streamState'.retryCount <= streamState.retryCount
              /\ pendingTimers' \subseteq pendingTimers]_vars

\* C9 - at most one transport session is active at any time, and a request
\* other than the latest one has no session, has no pending timer and gets
\* no event delivered.
SingleActiveSession ==
    /\ Cardinality({r \in Requests : Active(r)}) <= 1
    /\ \A r \in Requests :
          (\/ Active(r)
           \/ \E k \in 0..maxRetries : <<r, k>> \in pendingTimers
           \/ <<r, "onData">> \in callbacks)
              => r = nextReq - 1

\* request r waits for its scheduled reconnection: a fault has been handled
\* and the setTimeout callback has neither run nor been cleared
BackoffPending(r) == pc[r] = "backoff" /\ <<r, attempt[r]>> \in pendingTimers

\* request r is in backoff and its timer has been cleared
BackoffCleared(r) == pc[r] = "backoff" /\ <<r, attempt[r]>> \notin pendingTimers

\* C31 - disconnect() called while the backoff timer of a request is pending
\* clears the timer; from then on the request opens no transport session,
\* schedules nothing and does not advance retryCount.
DisconnectClearsBackoff ==
    [][\A r \in Requests :
          /\ (BackoffPending(r) /\ Disconnect) =>
                /\ BackoffCleared(r)'
                /\ streamState'.retryCount = 0
          /\ BackoffCleared(r) =>
                /\ BackoffCleared(r)'
                /\ scheduledDelays'[r] = scheduledDelays[r]]_vars

\* request r schedules a reconnection in this step (65-71)
SchedulesReconnection(r) == Len(scheduledDelays'[r]) = Len(scheduledDelays[r]) + 1

\* transport sessions request r has opened: the initial fetch and one fetch
\* for every timer callback that has run
SessionsOpened(r) ==
    IF pc[r] = "idle" THEN 0
    ELSE 1 + Len(scheduledDelays[r]) - (IF pc[r] = "backoff" THEN 1 ELSE 0)

\* request r is between two of its attempts or in one of them
Unfinished(r) == pc[r] \in {"fetching", "reading", "backoff"}

\* C32 - retryCount stays within 0..maxRetries; a request's scheduled
\* reconnection increases it by exactly one; while a request is unfinished it
\* is not decreased by a step of that request; a request opens at most
\* maxRetries + 1 transport sessions.
RetryCountLaw ==
    [][/\ streamState'.retryCount \in 0..maxRetries
       /\ \A r \in Requests :
             /\ SchedulesReconnection(r) => streamState'.retryCount = streamState.retryCount + 1
             /\ (Unfinished(r) /\ Unfinished(r)' /\ streamState'.retryCount < streamState.retryCount)
                   => pc'[r] = pc[r]
             /\ SessionsOpened(r)' <= maxRetries + 1]_vars

\* what ConnectionStatus renders for the state st
Status(st) ==
    IF st.isConnected THEN "Connected"
    ELSE IF st.isReconnecting THEN "Reconnecting"
    ELSE "Disconnected"

\* C33 - the connectivity states are mutually exclusive: streamState never has
\* isConnected and isReconnecting both true, and while events of a session
\* opened by a reconnection are delivered the status is Connected.
ConnectivityExclusive ==
    /\ ~(streamState.isConnected /\ streamState.isReconnecting)
    /\ \A r \in Requests :
          (<<r, "onData">> \in callbacks /\ attempt[r] # Initial) => Status(streamState) = "Connected"

\* disconnect() has returned and createResilientStream has not been called since
Disconnected == nextReq > 1 /\ cancelled[nextReq - 1]

\* C34 - disconnect() leaves streamState at its initial value, and until the
\* next createResilientStream call no step changes it or invokes onReconnect.
DisconnectIsTerminal ==
    [][/\ Disconnect => streamState' = InitStreamState
       /\ (Disconnected /\ Disconnected') =>
             /\ streamState' = InitStreamState
             /\ \A r \in Requests : <<r, "onReconnect">> \notin callbacks']_vars

\* C36 - onError is invoked at most once for a request, and only by the fault
\* of its initial attempt: a fault of a reconnection attempt, the exhaustion
\* of the retries included, invokes neither onError nor onComplete.
ErrorReportedOnce ==
    [][\A r \in Requests :
          /\ errorCalls'[r] <= 1
          /\ errorCalls'[r] > errorCalls[r] => attempt[r] = Initial
          /\ (FaultStep(r) /\ attempt[r] # Initial) =>
                /\ <<r, "onError">> \notin callbacks'
                /\ <<r, "onComplete">> \notin callbacks'
                /\ errorCalls' = errorCalls
                /\ completeCalls' = completeCalls]_vars

\* a request whose initial attempt and all reconnections faulted: onError was
\* invoked once and the request has failed
ErrorReportedOnceWitness ==
    \E r \in Requests :
        /\ pc[r] = "failed" /\ errorCalls[r] = 1 /\ completeCalls[r] = 0
        /\ Len(scheduledDelays[r]) = maxRetries /\ streamState.error = "exhausted"

-----------------------------------------------------------------------------
(* Read loop of streamFunction (useEnhancedStreaming.ts 115-138; the loop of *)
(* createStreamWithRetry, useAIChat.ts 170-191, is the same code)            *)

\* Bytes are named by strings: ASCII bytes by their character, "C3" and "A9"
\* are the lead and the continuation byte of U+00E9.  Characters: the ASCII
\* characters, "E9" for U+00E9 and "FFFD" for the replacement character.
Prefix == <<"d", "a", "t", "a", ":", " ">>
FrameObj == Prefix \o <<"{", "}", "\n">>
FrameNum == Prefix \o <<"1", "\n">>
Pieces == {FrameObj, FrameNum, Prefix, <<"{">>, <<"}">>, <<"1">>, <<"\n">>, <<" ">>,
           <<"C3", "A9">>, <<"C3">>, <<"A9">>, <<"d">>}

RECURSIVE Flatten(_)
Flatten(ss) == IF ss = <<>> THEN <<>> ELSE Head(ss) \o Flatten(Tail(ss))

Payloads == {Flatten(ps) : ps \in UNION {[1..n -> Pieces] : n \in 0..MaxPieces}}

\* decoder.decode(value, {stream: true}): lead is the decoder's pending state
RECURSIVE Decode(_, _)
Decode(lead, bytes) ==
    IF bytes = <<>> THEN [out |-> <<>>, lead |-> lead]
    ELSE LET b == Head(bytes) IN
         IF lead /\ b = "A9"
         THEN LET rest == Decode(FALSE, Tail(bytes)) IN
              [out |-> <<"E9">> \o rest.out, lead |-> rest.lead]
         ELSE IF lead
         THEN LET rest == Decode(FALSE, bytes) IN
              [out |-> <<"FFFD">> \o rest.out, lead |-> rest.lead]
         ELSE IF b = "C3"
         THEN Decode(TRUE, Tail(bytes))
         ELSE LET rest == Decode(FALSE, Tail(bytes)) IN
              [out |-> <<IF b = "A9" THEN "FFFD" ELSE b>> \o rest.out, lead |-> rest.lead]

\* buffer.split('\n')
RECURSIVE Split(_)
Split(s) ==
    IF \A i \in 1..Len(s) : s[i] # "\n" THEN <<s>>
    ELSE LET i == CHOOSE j \in 1..Len(s) : s[j] = "\n" /\ \A h \in 1..(j - 1) : s[h] # "\n"
         IN <<SubSeq(s, 1, i - 1)>> \o Split(SubSeq(s, i + 1, Len(s)))

\* the partial line thrown away at the end of each chunk
RetainPartialDropped(lines) == <<>>

\* buffer = lines.pop() || ''
RetainPartial(lines) == lines[Len(lines)]

\* pop() that leaves the last element in `lines`
CompleteLinesWithPartial(lines) == lines

\* the lines left in `lines` after pop()
CompleteLines(lines) == SubSeq(lines, 1, Len(lines) - 1)

\* a test that takes every line that starts with d for a frame
StartsWithD(line) == line # <<>> /\ Head(line) = "d"

\* line.startsWith('data: ')
StartsWithPrefix(line) == Len(line) >= Len(Prefix) /\ SubSeq(line, 1, Len(Prefix)) = Prefix

\* line.slice(6)
Slice6(line) == SubSeq(line, Len(Prefix) + 1, Len(line))

RECURSIVE TrimSpaces(_)
TrimSpaces(t) ==
    IF t # <<>> /\ Head(t) = " " THEN TrimSpaces(Tail(t))
    ELSE IF t # <<>> /\ t[Len(t)] = " " THEN TrimSpaces(SubSeq(t, 1, Len(t) - 1))
    ELSE t

\* JSON.parse(text) over the model's characters: a number of digits 1, or an
\* object without members (white space allowed around tokens); everything
\* else throws a SyntaxError
JSONParse(text) ==
    LET t == TrimSpaces(text) IN
    IF t # <<>> /\ \A i \in 1..Len(t) : t[i] = "1"
    THEN [ok |-> TRUE, value |-> <<"number", Len(t)>>]
    ELSE IF /\ Len(t) >= 2 /\ t[1] = "{" /\ t[Len(t)] = "}"
            /\ \A i \in 2..(Len(t) - 1) : t[i] = " "
    THEN [ok |-> TRUE, value |-> <<"object", 0>>]
    ELSE [ok |-> FALSE, value |-> <<"SyntaxError", 0>>]

\* line is a frame whose text JSON.parse accepts
WellFormedFrame(line) == StartsWithPrefix(line) /\ JSONParse(Slice6(line)).ok

\* line is a frame whose text JSON.parse rejects
MalformedFrame(line) == StartsWithPrefix(line) /\ ~JSONParse(Slice6(line)).ok

\* the loop as it would run if the SyntaxError of a malformed frame left it:
\* the frames after the first malformed one are not delivered
ProcessLinesAborting(lines) ==
    LET bad == {i \in 1..Len(lines) : MalformedFrame(lines[i])}
        upto == IF bad = {} THEN Len(lines)
                ELSE (CHOOSE i \in bad : \A j \in bad : i <= j) - 1
        good == SelectSeq(SubSeq(lines, 1, upto), WellFormedFrame)
    IN [i \in 1..Len(good) |-> JSONParse(Slice6(good[i])).value]

\* for (const line of lines): the values passed to onData
RECURSIVE ProcessLines(_)
ProcessLines(lines) ==
    IF lines = <<>> THEN <<>>
    ELSE LET line == Head(lines)
             rest == ProcessLines(Tail(lines))
         IN IF StartsWithPrefix(line) /\ JSONParse(Slice6(line)).ok
            THEN <<JSONParse(Slice6(line)).value>> \o rest
            ELSE rest

\* the events of a body that arrives as one chunk
OneChunkEvents(bytes) == ProcessLines(CompleteLines(Split(Decode(FALSE, bytes).out)))

\* where a chunk boundary falls, given the text retained in the buffer and
\* the bytes still to come
SplitKinds(buf, rest) ==
    (IF rest # <<>> /\ buf # <<>> /\ Len(buf) < Len(Prefix)
        /\ buf = SubSeq(Prefix, 1, Len(buf)) THEN {"prefix"} ELSE {})
    \cup (IF rest # <<>> /\ StartsWithPrefix(buf) /\ Len(buf) > Len(Prefix)
          THEN {"json"} ELSE {})
    \cup (IF rest # <<>> /\ Head(rest) = "\n" /\ StartsWithPrefix(buf)
          THEN {"newline"} ELSE {})

\* onData called outside the try: the first exception leaves the loop
CallOnDataUncaught(values, throwsOn) ==
    LET faults == {i \in 1..Len(values) : values[i] \in throwsOn} IN
    IF faults = {} THEN [passed |-> values, threw |-> FALSE]
    ELSE [passed |-> SubSeq(values, 1, CHOOSE i \in faults : \A j \in faults : i <= j),
          threw |-> TRUE]

\* try { ...; onData(data) } catch (e) { console.error(...) } (129-134): the
\* values onData is called with, and whether an exception left the loop
CallOnData(values, throwsOn) == [passed |-> values, threw |-> FALSE]

\* one iteration of the while loop: reader.read() resolves with n bytes
FeedChunk(n) ==
    /\ ~bodyDone /\ ~loopThrew
    /\ pos + n <= Len(payload)
    /\ LET d == Decode(decoderLead, SubSeq(payload, pos + 1, pos + n))
           lines == Split(buffer \o d.out)
       IN /\ decoderLead' = d.lead
          /\ buffer' = RetainPartial(lines)
          /\ LET sink == CallOnData(ProcessLines(CompleteLines(lines)), sinkThrows)
             IN /\ delivered' = delivered \o sink.passed
                /\ loopThrew' = sink.threw
          /\ splits' = splits \cup SplitKinds(RetainPartial(lines),
                                              SubSeq(payload, pos + n + 1, Len(payload)))
    /\ pos' = pos + n
    /\ UNCHANGED <<payload, bodyDone, sinkThrows>>

\* reader.read() resolves with done: break
EndOfBody ==
    /\ ~bodyDone /\ ~loopThrew
    /\ pos = Len(payload)
    /\ bodyDone' = TRUE
    /\ UNCHANGED <<payload, pos, decoderLead, buffer, delivered, splits, sinkThrows, loopThrew>>

DecInit ==
    /\ payload \in Payloads
    /\ pos = 0 /\ decoderLead = FALSE
    /\ buffer = <<>> /\ delivered = <<>> /\ bodyDone = FALSE /\ splits = {}
    /\ loopThrew = FALSE

InitDecoder ==
    /\ CtrlInit /\ DecInit /\ RedIdle /\ SesIdle /\ ProvIdle /\ InIdle /\ AdvIdle
    /\ sinkThrows = {}

NextDecoder ==
    \/ \E n \in 1..(MaxPieces * Len(FrameObj)) : FeedChunk(n) /\ UNCHANGED <<ctrlVars, redVars, sesVars, provVars, inVars, advVars>>
    \/ EndOfBody /\ UNCHANGED <<ctrlVars, redVars, sesVars, provVars, inVars, advVars>>

SpecDecoder == InitDecoder /\ [][NextDecoder]_vars

\* the caller's onData throws for every number it is given
SinkFaults == {{<<"number", n>> : n \in 1..(MaxPieces + 1)}}

InitSink ==
    /\ CtrlInit /\ DecInit /\ RedIdle /\ SesIdle /\ ProvIdle /\ InIdle /\ AdvIdle
    /\ sinkThrows \in SinkFaults

\* the read loop with a sink that throws
SpecSink == InitSink /\ [][NextDecoder]_vars

\* C1 - Frame integrity: when the body has ended, the values delivered to
\* onData, whatever the chunk boundaries were, are the events of the same body
\* read as one chunk; before that they are a prefix of them.
FrameIntegrity ==
    LET whole == OneChunkEvents(payload) IN
    /\ Len(delivered) <= Len(whole)
    /\ delivered = SubSeq(whole, 1, Len(delivered))
    /\ bodyDone => delivered = whole

\* a body with a frame has been read to its end in chunks that split inside
\* the prefix, inside the JSON text and right before the newline
FrameIntegrityWitness ==
    /\ bodyDone
    /\ delivered # <<>>
    /\ splits = {"prefix", "json", "newline"}

\* the complete lines of the text of bytes
LinesOf(bytes) == CompleteLines(Split(Decode(FALSE, bytes).out))

\* the parsed values of the well-formed frames among lines, in order
FrameValues(lines) ==
    LET good == SelectSeq(lines, WellFormedFrame) IN
    [i \in 1..Len(good) |-> JSONParse(Slice6(good[i])).value]

\* C14 - Malformed frame: a frame whose text is not valid JSON is dropped and
\* the loop goes on: when the body has ended, exactly the well-formed frames of
\* the body have been delivered, in order, those after a malformed frame
\* included.
MalformedFrameDropped ==
    bodyDone => delivered = FrameValues(LinesOf(payload))

\* a body in which a malformed frame precedes a well-formed one has been read
\* to its end and the well-formed frame has been delivered
MalformedFrameDroppedWitness ==
    /\ bodyDone
    /\ delivered # <<>>
    /\ \E i, j \in 1..Len(LinesOf(payload)) :
          i < j /\ MalformedFrame(LinesOf(payload)[i]) /\ WellFormedFrame(LinesOf(payload)[j])

\* C15 - Trailing frame: when the body ends gracefully while the buffer holds a
\* complete frame without its terminating newline, that frame is delivered
\* too, after the frames of the complete lines; any other residual delivers
\* nothing.
TrailingFrameSalvaged ==
    bodyDone =>
        delivered = FrameValues(LinesOf(payload))
                    \o (IF WellFormedFrame(buffer) THEN FrameValues(<<buffer>>) ELSE <<>>)

\* C16 - Delivery: in every state of a session the values delivered so far are
\* those of the well-formed frames whose newline has been read, each once and
\* in the order of the body; a frame is delivered by the iteration that reads
\* the chunk with its newline.
DeliveryExactlyOnce ==
    delivered = FrameValues(LinesOf(SubSeq(payload, 1, pos)))

\* the first of two frames has been delivered while the newline of the
\* second has not been read yet
DeliveryExactlyOnceWitness ==
    /\ ~bodyDone
    /\ pos < Len(payload)
    /\ Len(delivered) = 1
    /\ Len(FrameValues(LinesOf(payload))) = 2

\* the line begins with the six characters of the literal data prefix
HasDataPrefix(line) ==
    Len(line) >= 6 /\ SubSeq(line, 1, 6) = <<"d", "a", "t", "a", ":", " ">>

\* the text of the line after the prefix
Remainder(line) == SubSeq(line, 7, Len(line))

\* the lines of the body that begin with the prefix, the others left out
DataLines == SelectSeq(LinesOf(payload), HasDataPrefix)

\* C28 - Frames: when the body has ended, one value has been delivered for
\* each complete line that begins with the prefix and whose remainder parses
\* as JSON, and for no other line; the delivered values are those the body
\* gives with its blank and other non-prefixed lines left out.
LineYieldsEvent ==
    bodyDone =>
        /\ Len(delivered)
              = Cardinality({i \in 1..Len(LinesOf(payload)) :
                                /\ HasDataPrefix(LinesOf(payload)[i])
                                /\ JSONParse(Remainder(LinesOf(payload)[i])).ok})
        /\ delivered
              = LET good == SelectSeq(DataLines, LAMBDA l : JSONParse(Remainder(l)).ok)
                IN [i \in 1..Len(good) |-> JSONParse(Remainder(good[i])).value]

\* a body of three lines has been read to its end: the frames on the first
\* and the third line have been delivered, the line between them, which does
\* not begin with the prefix, has not
LineYieldsEventWitness ==
    /\ bodyDone
    /\ Len(LinesOf(payload)) = 3
    /\ ~HasDataPrefix(LinesOf(payload)[2])
    /\ Len(delivered) = 2

\* C39 - an exception thrown by the caller's onData is caught inside the read
\* loop: no exception leaves the loop, the frames after the one that threw
\* are delivered in order, and the body is read to its end.
SinkExceptionContained ==
    /\ ~loopThrew
    /\ Len(delivered) <= Len(FrameValues(LinesOf(payload)))
    /\ \A i \in 1..Len(delivered) : delivered[i] = FrameValues(LinesOf(payload))[i]
    /\ (pos = Len(payload)) => delivered = FrameValues(LinesOf(payload))

\* the body has ended after onData threw for a number and was called again
\* for the frames after it
SinkExceptionContainedWitness ==
    /\ bodyDone /\ Len(delivered) = 3
    /\ delivered[1] \in sinkThrows /\ delivered[2] \notin sinkThrows
    /\ delivered[3] \in sinkThrows

-----------------------------------------------------------------------------
(* Conversation reducer: the onData callbacks of handleSubmit                *)
(* (EnhancedChatInterface.tsx 105-285) and of sendMessage (ChatInterface.tsx *)
(* 369-502).  A string is the sequence of the tokens it was concatenated     *)
(* from; "" stands for an absent field.  A callback assigns its closure      *)
(* variables at once and hands updater functions to setMessages; React runs  *)
(* the updaters of queue in order when it renders next, and an updater reads *)
(* the closure variables it mentions when it runs.  A list element with      *)
(* shared = TRUE is the very object a closure variable was assigned, so an   *)
(* assignment to that object's content shows in the list; a spread           *)
(* ({ ...msg }) puts a copy in its place.                                    *)

Components == {"Enhanced", "Chat"}

NoMetadata == [k \in {} |-> ""]

Msg(id, type, content, isTemporary, isStreaming, metadata) ==
    [id |-> id, type |-> type, content |-> content, isTemporary |-> isTemporary,
     isStreaming |-> isStreaming, metadata |-> metadata, shared |-> FALSE]

Ev(type, token, toolName) ==
    [type |-> type, token |-> token, tool_name |-> toolName, parameters |-> ""]

\* data.token || ''
Tok(e) == IF e.token = "" THEN <<>> ELSE <<e.token>>

\* '' + data.token: an absent token is concatenated as the text undefined
TokRaw(e) == IF e.token = "" THEN <<"undefined">> ELSE <<e.token>>

\* x || fallback
OrElse(x, fallback) == IF x = "" THEN fallback ELSE x

\* prev.map(msg => msg.id === id ? { ...msg, content: updatedContent } : msg)
SetContent(msgs, id, updatedContent) ==
    [i \in 1..Len(msgs) |->
        IF msgs[i].id = id
        THEN [msgs[i] EXCEPT !.content = updatedContent, !.shared = FALSE]
        ELSE msgs[i]]

\* the map of thinking_end / tool_call_end / complete left without its effect
CloseMessageNoop(msgs, id) == msgs

\* prev.map(msg => msg.id === id ? { ...msg, isStreaming: false } : msg)
CloseMessage(msgs, id) ==
    [i \in 1..Len(msgs) |->
        IF msgs[i].id = id
        THEN [msgs[i] EXCEPT !.isStreaming = FALSE, !.shared = FALSE]
        ELSE msgs[i]]

\* object.content = updatedContent, as the list shows it
AssignContent(msgs, id, updatedContent) ==
    [i \in 1..Len(msgs) |->
        IF msgs[i].id = id /\ msgs[i].shared
        THEN [msgs[i] EXCEPT !.content = updatedContent]
        ELSE msgs[i]]

\* cleanupTemporaryMessages left without its filter
CleanupTemporaryNoop(msgs) == msgs

\* cleanupTemporaryMessages: prev.filter(msg => !msg.isTemporary)
CleanupTemporary(msgs) == SelectSeq(msgs, LAMBDA m : ~m.isTemporary)

\* prev.filter(msg => msg.id !== thinkingMessage?.id)
RemoveThinking(msgs, thinking) ==
    IF IsNull(thinking) THEN msgs
    ELSE SelectSeq(msgs, LAMBDA m : m.id # thinking.id)

\* prev.findIndex((msg, index) => msg.type === 'tool_result' && index === prev.length - 1),
\* 0 for -1
LastToolResultIndex(msgs) ==
    IF msgs # <<>> /\ msgs[Len(msgs)].type = "tool_result" THEN Len(msgs) ELSE 0

\* { ...msg.metadata, tool_name: ..., parameters: ... }
MergeToolMetadata(metadata, e) ==
    [k \in DOMAIN metadata \cup {"tool_name", "parameters"} |->
        IF k = "tool_name"
        THEN OrElse(e.tool_name,
                    IF "tool_name" \in DOMAIN metadata /\ metadata["tool_name"] # ""
                    THEN metadata["tool_name"] ELSE "unknown")
        ELSE IF k = "parameters" THEN e.parameters
        ELSE metadata[k]]

\* a map that appends the token to the content instead of replacing it
SetToolCallAppending(msgs, id, updatedContent, e) ==
    [i \in 1..Len(msgs) |->
        IF msgs[i].id = id
        THEN [msgs[i] EXCEPT !.content = @ \o updatedContent,
                             !.metadata = MergeToolMetadata(@, e),
                             !.shared = FALSE]
        ELSE msgs[i]]

\* prev.map(msg => msg.id === id ? { ...msg, content, metadata: {...} } : msg)
SetToolCall(msgs, id, updatedContent, e) ==
    [i \in 1..Len(msgs) |->
        IF msgs[i].id = id
        THEN [msgs[i] EXCEPT !.content = updatedContent,
                             !.metadata = MergeToolMetadata(@, e),
                             !.shared = FALSE]
        ELSE msgs[i]]

\* { ...(msg.metadata || {}), [flag]: true }
SetFlag(metadata, flag) ==
    [k \in DOMAIN metadata \cup {flag} |-> IF k = flag THEN "true" ELSE metadata[k]]

\* prev.map(msg => msg.id === id
\*     ? { ...msg, content: '', metadata: { ...(msg.metadata || {}), isThinking: true } } : msg)
HideThinking(msgs, id) ==
    [i \in 1..Len(msgs) |->
        IF msgs[i].id = id
        THEN [msgs[i] EXCEPT !.content = <<>>, !.metadata = SetFlag(@, "isThinking"),
                             !.shared = FALSE]
        ELSE msgs[i]]

\* prev.map(msg => msg.id === id
\*     ? { ...msg, metadata: { ...(msg.metadata || {}), fadeOut: true } } : msg)
FadeOut(msgs, id) ==
    [i \in 1..Len(msgs) |->
        IF msgs[i].id = id
        THEN [msgs[i] EXCEPT !.metadata = SetFlag(@, "fadeOut"), !.shared = FALSE]
        ELSE msgs[i]]

\* prev.map(msg => msg.id === id ? { ...msg, content: updatedContent, type: 'error' } : msg)
SetError(msgs, id, updatedContent) ==
    [i \in 1..Len(msgs) |->
        IF msgs[i].id = id
        THEN [msgs[i] EXCEPT !.content = updatedContent, !.type = "error",
                             !.shared = FALSE]
        ELSE msgs[i]]

\* the updater of tool_result: the last message, if a tool_result, gets the token
AppendToolResult(msgs, token) ==
    LET i == LastToolResultIndex(msgs) IN
    IF i # 0 THEN [msgs EXCEPT ![i].content = @ \o token] ELSE msgs

\* the updater of tool_result_end
CloseToolResult(msgs) ==
    LET i == LastToolResultIndex(msgs) IN
    IF i # 0 THEN [msgs EXCEPT ![i].isStreaming = FALSE] ELSE msgs

\* an updater function handed to setMessages: what it does (op), the closure
\* variable it reads when it runs (var) and the constants it captured
Upd(op, var, content, e, msg) ==
    [op |-> op, var |-> var, content |-> content, e |-> e, msg |-> msg]

\* prev => [...prev, <closure variable>!]
AppendVar(var) == Upd("appendVar", var, <<>>, Ev("", "", ""), NoMessage)

\* prev => [...prev, msg] for a const msg
AppendConst(msg) == Upd("append", "", <<>>, Ev("", "", ""), msg)

\* an updater that maps the message whose id is <closure variable>!.id
MapVar(op, var, content, e) == Upd(op, var, content, e, NoMessage)

\* an updater that reads no closure variable
Plain(op, content) == Upd(op, "", content, Ev("", "", ""), NoMessage)

\* setIsLoading(value), setIsSessionActive(value)
SetState(op, value) ==
    Upd(op, IF value THEN "true" ELSE "false", <<>>, Ev("", "", ""), NoMessage)

\* the value of the state variable set by op once the updates of q are
\* committed; current when q does not set it
Committed(q, op, current) ==
    LET sets == {i \in 1..Len(q) : q[i].op = op} IN
    IF sets = {} THEN current
    ELSE q[CHOOSE i \in sets : \A j \in sets : j <= i].var = "true"

\* React runs updater u on msgs; closure holds the closure variables' values
\* at that moment
RunUpdater(msgs, u, closure) ==
    CASE u.op = "appendVar" -> Append(msgs, [closure[u.var] EXCEPT !.shared = TRUE])
      [] u.op = "append" -> Append(msgs, u.msg)
      [] u.op = "setContent" -> SetContent(msgs, closure[u.var].id, u.content)
      [] u.op = "close" -> CloseMessage(msgs, closure[u.var].id)
      [] u.op = "setToolCall" -> SetToolCall(msgs, closure[u.var].id, u.content, u.e)
      [] u.op = "hideThinking" -> HideThinking(msgs, closure[u.var].id)
      [] u.op = "fadeOut" -> FadeOut(msgs, closure[u.var].id)
      [] u.op = "setError" -> SetError(msgs, closure[u.var].id, u.content)
      [] u.op = "appendToolResult" -> AppendToolResult(msgs, u.content)
      [] u.op = "closeToolResult" -> CloseToolResult(msgs)
      [] u.op = "cleanup" -> CleanupTemporary(msgs)
      [] u.op = "removeThinking" -> RemoveThinking(msgs, closure[u.var])
      [] u.op = "reset" -> <<>>
      [] OTHER -> msgs

\* React runs the updaters of q in order
RECURSIVE RunQueue(_, _, _)
RunQueue(msgs, q, closure) ==
    IF q = <<>> THEN msgs
    ELSE RunQueue(RunUpdater(msgs, Head(q), closure), Tail(q), closure)

RedState ==
    [messages |-> messages, queue |-> queue, thinkingMessage |-> thinkingMessage,
     assistantMessage |-> assistantMessage, toolCallMessage |-> toolCallMessage,
     removalTimers |-> removalTimers, nextId |-> nextId]

\* EnhancedChatInterface, (data) => { ... }: the state after the callback has
\* handled event e in st
Reduce(st, e) ==
    CASE e.type = "thinking_start" ->
           IF IsNull(st.thinkingMessage)
           THEN [st EXCEPT
                   !.thinkingMessage = Msg(st.nextId, "thinking", <<>>, TRUE, TRUE, NoMetadata),
                   !.queue = Append(@, AppendVar("thinkingMessage")),
                   !.nextId = @ + 1]
           ELSE st
      [] e.type = "thinking" ->
           IF ~IsNull(st.thinkingMessage)
           THEN LET updatedContent == st.thinkingMessage.content \o Tok(e) IN
                [st EXCEPT
                   !.thinkingMessage.content = updatedContent,
                   !.messages = AssignContent(@, st.thinkingMessage.id, updatedContent),
                   !.queue = Append(@, MapVar("setContent", "thinkingMessage", updatedContent, e))]
           ELSE st
      [] e.type = "thinking_end" ->
           [st EXCEPT
              !.removalTimers = IF ~IsNull(st.thinkingMessage) THEN @ + 1 ELSE @,
              !.assistantMessage = Msg(st.nextId, "assistant", <<>>, FALSE, TRUE, NoMetadata),
              !.queue = (IF ~IsNull(st.thinkingMessage)
                         THEN Append(@, MapVar("close", "thinkingMessage", <<>>, e))
                         ELSE @) \o <<AppendVar("assistantMessage")>>,
              !.nextId = @ + 1]
      [] e.type = "tool_call_start" ->
           [st EXCEPT
              !.toolCallMessage = Msg(st.nextId, "tool_call", <<>>, FALSE, TRUE,
                                      [tool_name |-> OrElse(e.tool_name, "unknown"),
                                       type |-> e.type]),
              !.queue = Append(@, AppendVar("toolCallMessage")),
              !.nextId = @ + 1]
      [] e.type = "tool_call" ->
           IF ~IsNull(st.toolCallMessage)
           THEN LET updatedContent == Tok(e) IN
                [st EXCEPT
                   !.toolCallMessage.content = updatedContent,
                   !.messages = AssignContent(@, st.toolCallMessage.id, updatedContent),
                   !.queue = Append(@, MapVar("setToolCall", "toolCallMessage", updatedContent, e))]
           ELSE st
      [] e.type = "tool_call_end" ->
           IF ~IsNull(st.toolCallMessage)
           THEN [st EXCEPT !.queue = Append(@, MapVar("close", "toolCallMessage", <<>>, e))]
           ELSE st
      [] e.type = "tool_result_start" ->
           [st EXCEPT
              !.queue = Append(@, AppendConst(Msg(st.nextId, "tool_result", <<>>, FALSE, TRUE,
                                                  [type |-> e.type]))),
              !.nextId = @ + 1]
      [] e.type = "tool_result" ->
           [st EXCEPT !.queue = Append(@, Plain("appendToolResult", Tok(e)))]
      [] e.type = "tool_result_end" ->
           [st EXCEPT !.queue = Append(@, Plain("closeToolResult", <<>>))]
      [] e.type = "response" ->
           IF ~IsNull(st.assistantMessage)
           THEN LET updatedContent == st.assistantMessage.content \o Tok(e) IN
                [st EXCEPT
                   !.assistantMessage.content = updatedContent,
                   !.messages = AssignContent(@, st.assistantMessage.id, updatedContent),
                   !.queue = Append(@, MapVar("setContent", "assistantMessage", updatedContent, e))]
           ELSE st
      [] e.type = "complete" ->
           [st EXCEPT
              !.queue = (IF ~IsNull(st.assistantMessage)
                         THEN Append(@, MapVar("close", "assistantMessage", <<>>, e))
                         ELSE @) \o <<Plain("cleanup", <<>>)>>]
      [] e.type = "error" ->
           [st EXCEPT
              !.queue = Append(@, AppendConst(Msg(st.nextId, "error",
                                   IF e.token = "" THEN <<"An error occurred">> ELSE <<e.token>>,
                                   FALSE, FALSE, NoMetadata))),
              !.nextId = @ + 1]
      [] OTHER -> st

\* append a message of kind type whose content is data.token || ''
AppendKind(st, type, e) ==
    [st EXCEPT
       !.queue = Append(@, AppendConst(Msg(st.nextId, type, Tok(e), FALSE, FALSE, NoMetadata))),
       !.nextId = @ + 1]

\* ChatInterface, (data) => { ... }: the state after the callback has handled
\* event e in st
ReduceChat(st, e) ==
    CASE e.type = "thinking_start" ->
           IF IsNull(st.thinkingMessage)
           THEN [st EXCEPT
                   !.thinkingMessage = Msg(st.nextId, "thinking", <<>>, TRUE, FALSE, NoMetadata),
                   !.queue = Append(@, AppendVar("thinkingMessage")),
                   !.nextId = @ + 1]
           ELSE st
      [] e.type = "thinking" ->
           IF ~IsNull(st.thinkingMessage)
           THEN LET updatedContent == st.thinkingMessage.content \o TokRaw(e) IN
                [st EXCEPT
                   !.thinkingMessage.content = updatedContent,
                   !.messages = AssignContent(@, st.thinkingMessage.id, updatedContent),
                   !.queue = Append(@, MapVar("hideThinking", "thinkingMessage", <<>>, e))]
           ELSE st
      [] e.type = "thinking_end" ->
           [st EXCEPT
              !.removalTimers = IF ~IsNull(st.thinkingMessage) THEN @ + 1 ELSE @,
              !.assistantMessage = Msg(st.nextId, "assistant", <<>>, FALSE, FALSE, NoMetadata),
              !.queue = (IF ~IsNull(st.thinkingMessage)
                         THEN Append(@, MapVar("fadeOut", "thinkingMessage", <<>>, e))
                         ELSE @) \o <<AppendVar("assistantMessage")>>,
              !.nextId = @ + 1]
      [] e.type = "response" ->
           LET created == IsNull(st.assistantMessage)
               target == IF created
                         THEN Msg(st.nextId, "assistant", <<>>, FALSE, FALSE, NoMetadata)
                         ELSE st.assistantMessage
               updatedContent == target.content \o Tok(e)
           IN [st EXCEPT
                 !.assistantMessage = [target EXCEPT !.content = updatedContent],
                 !.messages = AssignContent(@, target.id, updatedContent),
                 !.queue = (IF created THEN Append(@, AppendVar("assistantMessage")) ELSE @)
                           \o <<MapVar("setContent", "assistantMessage", updatedContent, e)>>,
                 !.nextId = IF created THEN @ + 1 ELSE @]
      [] e.type \in {"action", "action_input", "observation", "final_answer_header"} ->
           AppendKind(st, e.type, e)
      [] e.type = "error" ->
           IF ~IsNull(st.assistantMessage)
           THEN LET updatedContent == st.assistantMessage.content \o Tok(e) IN
                [st EXCEPT
                   !.assistantMessage.content = updatedContent,
                   !.messages = AssignContent(@, st.assistantMessage.id, updatedContent),
                   !.queue = Append(@, MapVar("setError", "assistantMessage", updatedContent, e))]
           ELSE AppendKind(st, "error", e)
      [] e.type = "complete" ->
           [st EXCEPT !.queue = Append(@, Plain("cleanup", <<>>))]
      [] OTHER -> st

\* the data.type values either callback has a branch for
KnownKinds ==
    {"thinking_start", "thinking", "thinking_end", "tool_call_start", "tool_call",
     "tool_call_end", "tool_result_start", "tool_result", "tool_result_end", "response",
     "action", "action_input", "observation", "final_answer_header", "error", "complete"}

\* a callback whose if-chain ends in an else that shows the event as a message
CallbackAppendingUnknown(comp, st, e) ==
    IF e.type \notin KnownKinds THEN AppendKind(st, e.type, e)
    ELSE IF comp = "Enhanced" THEN Reduce(st, e) ELSE ReduceChat(st, e)

\* the callback of component comp handles e
Callback(comp, st, e) == IF comp = "Enhanced" THEN Reduce(st, e) ELSE ReduceChat(st, e)

\* the closure variables of st, as an updater that runs now reads them
Closure(st) ==
    [thinkingMessage |-> st.thinkingMessage, assistantMessage |-> st.assistantMessage,
     toolCallMessage |-> st.toolCallMessage]

\* st after React has rendered
Rendered(st) ==
    [st EXCEPT !.messages = RunQueue(@, st.queue, Closure(st)), !.queue = <<>>]

\* st after handleSubmit (69-88) / sendMessage (317-344) has run up to the call
\* of createResilientStream
Submit(comp, st) ==
    LET userMessage == Msg(st.nextId, "user", <<"question">>, FALSE, FALSE, NoMetadata) IN
    [st EXCEPT
       !.queue = IF comp = "Chat"
                 THEN @ \o <<Plain("cleanup", <<>>), AppendConst(userMessage),
                             SetState("setIsLoading", TRUE)>>
                 ELSE @ \o <<SetState("setIsLoading", TRUE), AppendConst(userMessage)>>,
       !.nextId = @ + 1,
       !.thinkingMessage = NoMessage,
       !.assistantMessage = NoMessage,
       !.toolCallMessage = NoMessage]

\* the scenario of the specification's testable properties
Scenario ==
    << Ev("thinking_start", "", ""), Ev("thinking", "eval", ""), Ev("thinking_end", "", ""),
       Ev("tool_call_start", "", "Weather"), Ev("tool_call", "Paris", ""),
       Ev("tool_call_end", "", ""),
       Ev("tool_result_start", "", ""), Ev("tool_result", "23C", ""),
       Ev("tool_result_end", "", ""),
       Ev("response", "It's 23C", ""), Ev("complete", "", "") >>

\* the events free scripts are made of
EventAlphabet ==
    { Ev("thinking_start", "", ""), Ev("thinking", "eval", ""), Ev("thinking_end", "", ""),
      Ev("tool_call_start", "", "Weather"), Ev("tool_call", "Paris", ""),
      Ev("tool_call_end", "", ""),
      Ev("tool_result_start", "", ""), Ev("tool_result", "23C", ""),
      Ev("tool_result_end", "", ""),
      Ev("response", "hi", ""), Ev("complete", "", ""), Ev("error", "boom", ""),
      Ev("ping", "", "") }

Scripts == {Scenario} \cup UNION {[1..n -> EventAlphabet] : n \in 0..MaxScriptLen}

\* the user submits a question
HandleSubmit ==
    /\ ~submitted
    /\ submitted' = TRUE
    /\ LET st == Submit(component, RedState) IN
          /\ queue' = st.queue
          /\ nextId' = st.nextId
          /\ thinkingMessage' = st.thinkingMessage
          /\ assistantMessage' = st.assistantMessage
          /\ toolCallMessage' = st.toolCallMessage
    /\ UNCHANGED <<component, messages, removalTimers, script, applied, isLoading>>

\* the stream delivers the next event of the script to the callback
ApplyEvent ==
    /\ submitted
    /\ script # <<>>
    /\ LET st == Callback(component, RedState, Head(script)) IN
          /\ messages' = st.messages
          /\ queue' = st.queue
          /\ thinkingMessage' = st.thinkingMessage
          /\ assistantMessage' = st.assistantMessage
          /\ toolCallMessage' = st.toolCallMessage
          /\ removalTimers' = st.removalTimers
          /\ nextId' = st.nextId
    /\ applied' = Append(applied, Head(script))
    /\ script' = Tail(script)
    /\ UNCHANGED <<component, submitted, isLoading>>

\* the callback of the setTimeout set by thinking_end runs (Enhanced 143-145,
\* Chat 410-412)
RemovalTimerFires ==
    /\ removalTimers > 0
    /\ removalTimers' = removalTimers - 1
    /\ queue' = Append(queue, MapVar("removeThinking", "thinkingMessage", <<>>, Ev("", "", "")))
    /\ UNCHANGED <<component, messages, thinkingMessage, assistantMessage, toolCallMessage,
                   nextId, script, applied, submitted, isLoading>>

\* React renders: the queued updaters run in order
Render ==
    /\ queue # <<>>
    /\ messages' = Rendered(RedState).messages
    /\ isLoading' = Committed(queue, "setIsLoading", isLoading)
    /\ queue' = <<>>
    /\ UNCHANGED <<component, thinkingMessage, assistantMessage, toolCallMessage,
                   removalTimers, nextId, script, applied, submitted>>

RedInit ==
    /\ component \in Components /\ queue = <<>>
    /\ messages = <<>> /\ thinkingMessage = NoMessage /\ assistantMessage = NoMessage
    /\ toolCallMessage = NoMessage /\ removalTimers = 0 /\ nextId = 1
    /\ script \in Scripts /\ applied = <<>> /\ submitted = FALSE /\ isLoading = FALSE

InitReducer == CtrlInit /\ DecIdle /\ RedInit /\ SesIdle /\ ProvIdle /\ InIdle /\ AdvIdle

NextReducer ==
    \/ HandleSubmit /\ UNCHANGED <<ctrlVars, decVars, sesVars, provVars, inVars, advVars>>
    \/ ApplyEvent /\ UNCHANGED <<ctrlVars, decVars, sesVars, provVars, inVars, advVars>>
    \/ RemovalTimerFires /\ UNCHANGED <<ctrlVars, decVars, sesVars, provVars, inVars, advVars>>
    \/ Render /\ UNCHANGED <<ctrlVars, decVars, sesVars, provVars, inVars, advVars>>

SpecReducer == InitReducer /\ [][NextReducer]_vars

OfType(type) == SelectSeq(messages, LAMBDA m : m.type = type)

\* C10 - Scenario: once the callback of EnhancedChatInterface has handled the
\* events of Scenario and React has rendered, the list holds the user message,
\* exactly one closed tool_call message (content Paris, tool_name Weather),
\* exactly one closed tool_result message (content 23C), exactly one closed
\* assistant message (content It's 23C), no thinking message and nothing else,
\* whether or not the removal timer has fired.
ScenarioResult ==
    (component = "Enhanced" /\ applied = Scenario /\ queue = <<>>) =>
        /\ Len(messages) = 4
        /\ Len(OfType("user")) = 1
        /\ Len(OfType("thinking")) = 0
        /\ Len(OfType("tool_call")) = 1
        /\ OfType("tool_call")[1].content = <<"Paris">>
        /\ OfType("tool_call")[1].metadata["tool_name"] = "Weather"
        /\ OfType("tool_call")[1].isStreaming = FALSE
        /\ Len(OfType("tool_result")) = 1
        /\ OfType("tool_result")[1].content = <<"23C">>
        /\ OfType("tool_result")[1].isStreaming = FALSE
        /\ Len(OfType("assistant")) = 1
        /\ OfType("assistant")[1].content = <<"It's 23C">>
        /\ OfType("assistant")[1].isStreaming = FALSE

\* the scenario has been applied to its end and rendered while the removal
\* timer of the thinking message was still pending
ScenarioResultWitness ==
    /\ component = "Enhanced"
    /\ applied = Scenario
    /\ queue = <<>>
    /\ removalTimers = 1

\* the last event the callback has handled
LastApplied == applied[Len(applied)]

\* C11 - Ephemeral cleanup: in both components, once the callback has handled
\* an event sequence that ends with complete and React has rendered, the list
\* holds no message with isTemporary = true and no thinking message.
EphemeralCleanup ==
    (applied # <<>> /\ LastApplied.type = "complete" /\ queue = <<>>) =>
        \A i \in 1..Len(messages) :
            ~messages[i].isTemporary /\ messages[i].type # "thinking"

\* ChatInterface has handled thinking_start and then complete with no
\* thinking_end in between, so that only the cleanup of complete can have
\* removed the thinking message
EphemeralCleanupWitness ==
    /\ component = "Chat"
    /\ Len(applied) = 2
    /\ applied[1].type = "thinking_start"
    /\ applied[2].type = "complete"
    /\ queue = <<>>
    /\ removalTimers = 0

\* what a message shows, its id aside
Visible(msgs) ==
    [i \in 1..Len(msgs) |->
        [type |-> msgs[i].type, content |-> msgs[i].content,
         isTemporary |-> msgs[i].isTemporary, isStreaming |-> msgs[i].isStreaming,
         metadata |-> msgs[i].metadata]]

\* st once the pending removal timers have fired and React has rendered
Expired(st) ==
    IF st.removalTimers > 0
    THEN [Rendered(st) EXCEPT !.messages = RemoveThinking(@, st.thinkingMessage),
                              !.removalTimers = 0]
    ELSE Rendered(st)

\* the state after component comp has handled evs one event at a time, React
\* rendering and the removal timer firing after every event
RECURSIVE Replay(_, _, _)
Replay(comp, st, evs) ==
    IF evs = <<>> THEN st
    ELSE Replay(comp, Expired(Callback(comp, st, Head(evs))), Tail(evs))

\* the component before the user submits
FreshState ==
    [messages |-> <<>>, queue |-> <<>>, thinkingMessage |-> NoMessage,
     assistantMessage |-> NoMessage, toolCallMessage |-> NoMessage,
     removalTimers |-> 0, nextId |-> 1]

\* the turn is over: every event handled, every timer fired, everything rendered
Quiescent == submitted /\ script = <<>> /\ queue = <<>> /\ removalTimers = 0

\* C12 - Reducer determinism: the list a turn ends with depends on the event
\* sequence alone: whenever the removal timer fires and whenever React renders,
\* the final list equals, ids aside, the list got from a fresh component by
\* handling the same events one at a time.
ReducerDeterminism ==
    Quiescent =>
        Visible(messages) =
            Visible(Replay(component, Rendered(Submit(component, FreshState)), applied).messages)

\* streaming thinking messages of the list
StreamingThinking ==
    {i \in 1..Len(messages) : messages[i].type = "thinking" /\ messages[i].isStreaming}

\* C20 - Single thinking message: in EnhancedChatInterface the list never holds
\* more than one thinking message with isStreaming = true; one exists only
\* after thinking_start, and none is left once a thinking_end that follows a
\* thinking_start has been handled and rendered, for any order and repetition
\* of the thinking events.
SingleThinking ==
    component = "Enhanced" =>
        /\ Cardinality(StreamingThinking) <= 1
        /\ StreamingThinking # {} => \E i \in 1..Len(applied) : applied[i].type = "thinking_start"
        /\ ((\E i, j \in 1..Len(applied) :
                   i < j /\ applied[i].type = "thinking_start" /\ applied[j].type = "thinking_end")
             /\ queue = <<>>)
               => StreamingThinking = {}

\* thinking_start has been handled twice and rendered, and one streaming
\* thinking message is in the list
SingleThinkingWitness ==
    /\ component = "Enhanced"
    /\ Len(applied) >= 2
    /\ applied[1].type = "thinking_start"
    /\ applied[2].type = "thinking_start"
    /\ queue = <<>>
    /\ Cardinality(StreamingThinking) = 1

\* the events handled before the last one
Earlier == SubSeq(applied, 1, Len(applied) - 1)

\* the tokens (data.token || '') of the events of evs of the given type, in order
RECURSIVE TokensOf(_, _)
TokensOf(evs, type) ==
    IF evs = <<>> THEN <<>>
    ELSE (IF Head(evs).type = type THEN Tok(Head(evs)) ELSE <<>>) \o TokensOf(Tail(evs), type)

\* how many events of evs are of the given type
Count(evs, type) == Cardinality({i \in 1..Len(evs) : evs[i].type = type})

\* the events of evs after its last event of the given type; evs has one
After(evs, type) ==
    LET s == CHOOSE i \in 1..Len(evs) :
                 evs[i].type = type /\ \A j \in (i + 1)..Len(evs) : evs[j].type # type
    IN SubSeq(evs, s + 1, Len(evs))

\* the last message of the list that is of the given type; the list has one
LastOfType(type) == OfType(type)[Len(OfType(type))]

\* streaming assistant messages of the list
StreamingAssistant ==
    {i \in 1..Len(messages) : messages[i].type = "assistant" /\ messages[i].isStreaming}

\* C21 - Single streaming assistant message: the list never holds more than
\* one assistant message with isStreaming = true, whatever the event sequence
\* (repeated thinking_end included), and none once complete has been handled
\* and rendered.
SingleStreamingAssistant ==
    /\ Cardinality(StreamingAssistant) <= 1
    /\ (applied # <<>> /\ LastApplied.type = "complete" /\ queue = <<>>)
          => StreamingAssistant = {}

\* C22 - Response: in both components, once a response event has been handled
\* and rendered in a turn without thinking_end (so that no assistant message
\* was open before the first response) and without error, the list holds an
\* assistant message whose content is the concatenation of the response
\* tokens received so far.
ResponseReachesAssistant ==
    (/\ applied # <<>> /\ LastApplied.type = "response" /\ queue = <<>>
     /\ Count(applied, "thinking_end") = 0 /\ Count(applied, "error") = 0)
        => \E i \in 1..Len(messages) :
              /\ messages[i].type = "assistant"
              /\ messages[i].content = TokensOf(applied, "response")

\* C23 - Tool result: in EnhancedChatInterface, once the events are handled
\* and rendered, the tool_result message opened last holds the tokens of the
\* tool_result events received since its tool_result_start, and is closed if
\* a tool_result_end was received since, whatever else was appended meanwhile.
ToolResultReachesLatest ==
    (component = "Enhanced" /\ queue = <<>> /\ Count(applied, "tool_result_start") > 0)
        => /\ OfType("tool_result") # <<>>
           /\ LastOfType("tool_result").content
                 = TokensOf(After(applied, "tool_result_start"), "tool_result")
           /\ Count(After(applied, "tool_result_start"), "tool_result_end") > 0
                 => ~LastOfType("tool_result").isStreaming

\* the token of the last event of evs of the given type, nothing if there is none
LastToken(evs, type) ==
    IF Count(evs, type) = 0 THEN <<>>
    ELSE Tok(evs[CHOOSE i \in 1..Len(evs) :
                    evs[i].type = type /\ \A j \in (i + 1)..Len(evs) : evs[j].type # type])

ErrorReclassifies ==
    (applied # <<>> /\ LastApplied.type = "error" /\ queue = <<>>
       /\ Count(Earlier, "error") = 0 /\ Count(Earlier, "complete") = 0)
        => /\ Count(Earlier, "thinking_end") = 1
                 => /\ OfType("assistant") = <<>>
                    /\ Len(OfType("error")) = 1
                    /\ OfType("error")[1].content
                          = TokensOf(After(Earlier, "thinking_end"), "response")
                            \o Tok(LastApplied)
           /\ (Count(Earlier, "thinking_end") = 0 /\ Count(Earlier, "response") = 0)
                 => /\ Len(OfType("error")) = 1
                    /\ OfType("error")[1].content = Tok(LastApplied)
                    /\ ~OfType("error")[1].isStreaming

\* C26 - Thinking: in both components, while the thinking message is open
\* (thinking_start handled, no thinking_end or complete yet) and the updates
\* are rendered, the content of the thinking message in the list is the
\* concatenation of the thinking tokens received since thinking_start.
ThinkingAppends ==
    (/\ queue = <<>> /\ Count(applied, "thinking_start") > 0
     /\ Count(applied, "thinking_end") = 0 /\ Count(applied, "complete") = 0)
        => /\ Len(OfType("thinking")) = 1
           /\ OfType("thinking")[1].content
                 = TokensOf(After(applied, "thinking_start") , "thinking")

\* no queued updater reads the id of a closure variable that is null, which
\* would throw a TypeError when React runs it
NoNullRead ==
    \A i \in 1..Len(queue) :
        (queue[i].var \in {"thinkingMessage", "assistantMessage", "toolCallMessage"}
           /\ queue[i].op # "removeThinking")
            => ~IsNull(Closure(RedState)[queue[i].var])

\* C27 - Unknown kinds: in both components, a step that handles an event
\* whose type no branch knows leaves the list, the queued updates and the
\* three open-message variables as they are; and no event, with or without
\* an open target, queues an updater that would read a null variable.
UnknownEventIgnored ==
    [][/\ NoNullRead'
       /\ (applied' # applied /\ applied'[Len(applied')].type \notin KnownKinds)
             => UNCHANGED <<messages, queue, thinkingMessage, assistantMessage,
                            toolCallMessage, removalTimers, nextId>>]_vars

\* EnhancedChatInterface has handled thinking_start, an event of unknown type
\* and a response without open assistant message; the list holds the user
\* message and the thinking message
UnknownEventIgnoredWitness ==
    /\ component = "Enhanced" /\ queue = <<>> /\ Len(applied) = 3
    /\ applied[1].type = "thinking_start" /\ applied[2].type = "ping"
    /\ applied[3].type = "response"
    /\ Len(messages) = 2 /\ messages[2].type = "thinking"

-----------------------------------------------------------------------------
(* One turn of a chat component on the hook: sendMessage / handleSubmit      *)
(* calls createResilientStream, the hook's steps invoke the component's      *)
(* callbacks, React renders, ChatInterface's session handlers run            *)

\* the events the backend sends in a turn
TurnAlphabet ==
    { Ev("thinking_start", "", ""), Ev("thinking_end", "", ""),
      Ev("response", "hi", ""), Ev("complete", "", "") }

\* addSystemMessage(content, type)
AddSystemMessage(st, content, type) ==
    [st EXCEPT
       !.queue = Append(@, AppendConst(Msg(st.nextId, type, <<content>>, FALSE, FALSE,
                                           NoMetadata))),
       !.nextId = @ + 1]

\* the onComplete callback given to createResilientStream: setIsLoading(false)
OnComplete(st) == [st EXCEPT !.queue = Append(@, SetState("setIsLoading", FALSE))]

\* the onError option given to useEnhancedStreaming
OnError(comp, st) ==
    IF comp = "Chat" THEN AddSystemMessage(st, "Streaming error", "error")
    ELSE AddSystemMessage(st, "Connection error", "error")

\* an onReconnect that starts the list over
OnReconnectResetting(comp, st) == [st EXCEPT !.queue = Append(@, Plain("reset", <<>>))]

\* the onReconnect option given to useEnhancedStreaming
OnReconnect(comp, st) ==
    IF comp = "Chat" THEN AddSystemMessage(st, "Connection restored", "assistant")
    ELSE AddSystemMessage(st, "Connection restored", "system")

\* the callbacks named in cbs run on st in the order the hook invokes them
\* within one step; e is the event given to onData
Invoke(comp, st, cbs, e) ==
    LET s1 == IF "onData" \in cbs THEN Callback(comp, st, e) ELSE st
        s2 == IF "onComplete" \in cbs THEN OnComplete(s1) ELSE s1
        s3 == IF "onError" \in cbs THEN OnError(comp, s2) ELSE s2
    IN IF "onReconnect" \in cbs THEN OnReconnect(comp, s3) ELSE s3

\* the component's share of a step of request r of the hook: the callbacks
\* the step invoked run
Deliver(r) ==
    LET cbs == {c[2] : c \in {d \in callbacks' : d[1] = r}} IN
    /\ "onData" \in cbs => Len(applied) < MaxTurnEvents
    /\ \E e \in TurnAlphabet :
          /\ "onData" \notin cbs => e = Ev("complete", "", "")
          /\ LET st == Invoke(component, RedState, cbs, e) IN
                /\ messages' = st.messages
                /\ queue' = st.queue
                /\ thinkingMessage' = st.thinkingMessage
                /\ assistantMessage' = st.assistantMessage
                /\ toolCallMessage' = st.toolCallMessage
                /\ removalTimers' = st.removalTimers
                /\ nextId' = st.nextId
          /\ applied' = IF "onData" \in cbs THEN Append(applied, e) ELSE applied
    /\ UNCHANGED <<component, script, submitted, isLoading>>

\* sendMessage(content) / handleSubmit(e) with a non-empty input, up to the
\* first await of createResilientStream
SendMessage ==
    /\ ~isLoading
    /\ HandleSubmit
    /\ CreateResilientStream

\* a session counts as active as soon as the list holds any message
HasAnyMessage(msgs) == msgs # <<>>

\* messages.some(msg => msg.type === 'user')
HasUserMessage(msgs) == \E i \in 1..Len(msgs) : msgs[i].type = "user"

\* the updates of q that go to setMessages
MessageUpdates(q) ==
    SelectSeq(q, LAMBDA u : u.op \notin {"setIsLoading", "setIsSessionActive"})

\* React renders the chat component: the queued updates are committed; a new
\* messages array makes the session-activity effect of ChatInterface due
RenderTurn ==
    /\ Render
    /\ isSessionActive' = Committed(queue, "setIsSessionActive", isSessionActive)
    /\ effectPending' = (effectPending \/ (component = "Chat" /\ MessageUpdates(queue) # <<>>))
    /\ UNCHANGED <<reported, resets>>

\* useEffect(() => { ... }, [messages, onSessionStateChange]) (127-132)
SessionEffect ==
    /\ effectPending
    /\ effectPending' = FALSE
    /\ queue' = Append(queue, SetState("setIsSessionActive", HasUserMessage(messages)))
    /\ reported' = HasUserMessage(messages)
    /\ UNCHANGED <<component, messages, thinkingMessage, assistantMessage, toolCallMessage,
                   removalTimers, nextId, script, applied, submitted, isLoading,
                   isSessionActive, resets>>

\* setMessages([]); setIsSessionActive(false); addSystemMessage(text, 'assistant')
ResetSession(text) ==
    /\ component = "Chat"
    /\ resets < MaxResets
    /\ resets' = resets + 1
    /\ queue' = queue \o <<Plain("reset", <<>>), SetState("setIsSessionActive", FALSE),
                            AppendConst(Msg(nextId, "assistant", <<text>>, FALSE, FALSE,
                                            NoMetadata))>>
    /\ nextId' = nextId + 1
    /\ UNCHANGED <<component, messages, thinkingMessage, assistantMessage, toolCallMessage,
                   removalTimers, script, applied, submitted, isLoading,
                   isSessionActive, reported, effectPending>>

\* handleNewSession() (96-103)
HandleNewSession == ResetSession("Started new session")

\* updateSession(newSessionId) (541-547)
UpdateSession == ResetSession("Switched to session")

\* clearMemory() from the moment its DELETE request settles (531-538)
ClearMemory ==
    /\ component = "Chat"
    /\ resets < MaxResets
    /\ resets' = resets + 1
    /\ \E outcome \in {"ok", "not ok", "rejected"} :
          /\ queue' = CASE outcome = "ok" ->
                              queue \o <<Plain("reset", <<>>),
                                         AppendConst(Msg(nextId, "assistant", <<"Memory cleared">>,
                                                         FALSE, FALSE, NoMetadata))>>
                         [] outcome = "rejected" ->
                              Append(queue, AppendConst(Msg(nextId, "error",
                                                            <<"Error clearing memory">>,
                                                            FALSE, FALSE, NoMetadata)))
                         [] OTHER -> queue
          /\ nextId' = IF outcome = "not ok" THEN nextId ELSE nextId + 1
    /\ UNCHANGED <<component, messages, thinkingMessage, assistantMessage, toolCallMessage,
                   removalTimers, script, applied, submitted, isLoading,
                   isSessionActive, reported, effectPending>>

\* the messages of msgs that are not temporary, in order
NonTemporary(msgs) == SelectSeq(msgs, LAMBDA m : ~m.isTemporary)

\* every message of a is in b, at the same place, with its content unchanged
\* or extended
Persisted(a, b) ==
    /\ Len(a) <= Len(b)
    /\ \A i \in 1..Len(a) :
          /\ b[i].id = a[i].id /\ b[i].type = a[i].type
          /\ Len(a[i].content) <= Len(b[i].content)
          /\ SubSeq(b[i].content, 1, Len(a[i].content)) = a[i].content

SessionScripts == UNION {[1..n -> TurnAlphabet] : n \in 0..MaxScriptLen}

TurnInit ==
    /\ component \in Components /\ queue = <<>>
    /\ messages = <<>> /\ thinkingMessage = NoMessage /\ assistantMessage = NoMessage
    /\ toolCallMessage = NoMessage /\ removalTimers = 0 /\ nextId = 1
    /\ script \in SessionScripts /\ applied = <<>> /\ submitted = FALSE /\ isLoading = FALSE
    /\ isSessionActive = FALSE /\ reported = FALSE /\ resets = 0
    /\ effectPending = (component = "Chat")

InitTurn ==
    /\ CtrlInit /\ DecIdle /\ TurnInit /\ ProvIdle /\ InIdle /\ AdvIdle
    /\ script = <<>>

NextTurn ==
    \/ SendMessage /\ UNCHANGED <<decVars, sesVars, provVars, inVars, advVars>>
    \/ \E r \in Requests : FetchFails(r) /\ Deliver(r) /\ UNCHANGED <<decVars, sesVars, provVars, inVars, advVars>>
    \/ \E r \in Requests : FetchBadResponse(r) /\ Deliver(r) /\ UNCHANGED <<decVars, sesVars, provVars, inVars, advVars>>
    \/ \E r \in Requests : FetchOk(r) /\ Deliver(r) /\ UNCHANGED <<decVars, sesVars, provVars, inVars, advVars>>
    \/ \E r \in Requests : ReadChunk(r) /\ Deliver(r) /\ UNCHANGED <<decVars, sesVars, provVars, inVars, advVars>>
    \/ \E r \in Requests : ReadDone(r) /\ Deliver(r) /\ UNCHANGED <<decVars, sesVars, provVars, inVars, advVars>>
    \/ \E r \in Requests : ReadFails(r) /\ Deliver(r) /\ UNCHANGED <<decVars, sesVars, provVars, inVars, advVars>>
    \/ \E r \in Requests : TimerFires(r) /\ Deliver(r) /\ UNCHANGED <<decVars, sesVars, provVars, inVars, advVars>>
    \/ RemovalTimerFires /\ UNCHANGED <<ctrlVars, decVars, sesVars, provVars, inVars, advVars>>
    \/ Render /\ UNCHANGED <<ctrlVars, decVars, sesVars, provVars, inVars, advVars>>

SpecTurn == InitTurn /\ [][NextTurn]_vars

\* the scheduler runs whatever is runnable: settled promises, due timers,
\* pending renders
SpecTurnFair == SpecTurn /\ WF_vars(NextTurn)

\* the turn of request 1 ended without onComplete: streamFunction threw and
\* was not retried, or the retries are used up
TurnFailed ==
    \/ pc[1] = "failed"
    \/ pc[1] = "returned" /\ completeCalls[1] = 0

\* C13: after a turn failed (a fault that is not retried, a non-success HTTP
\* status, or exhausted retries) the component eventually is idle again: every
\* update is committed and isLoading is false, so that a later submit passes
\* the isLoading guard.
FailedTurnReturnsToIdle == TurnFailed ~> (queue = <<>> /\ ~isLoading)

InitSession ==
    /\ CtrlInit /\ DecIdle /\ TurnInit /\ ProvIdle /\ InIdle /\ AdvIdle
    /\ component = "Chat"

NextSession ==
    \/ HandleSubmit /\ UNCHANGED <<ctrlVars, decVars, sesVars, provVars, inVars, advVars>>
    \/ ApplyEvent /\ UNCHANGED <<ctrlVars, decVars, sesVars, provVars, inVars, advVars>>
    \/ RemovalTimerFires /\ UNCHANGED <<ctrlVars, decVars, sesVars, provVars, inVars, advVars>>
    \/ RenderTurn /\ UNCHANGED <<ctrlVars, decVars, provVars, inVars, advVars>>
    \/ SessionEffect /\ UNCHANGED <<ctrlVars, decVars, provVars, inVars, advVars>>
    \/ HandleNewSession /\ UNCHANGED <<ctrlVars, decVars, provVars, inVars, advVars>>
    \/ UpdateSession /\ UNCHANGED <<ctrlVars, decVars, provVars, inVars, advVars>>
    \/ ClearMemory /\ UNCHANGED <<ctrlVars, decVars, provVars, inVars, advVars>>

SpecSession == InitSession /\ [][NextSession]_vars

\* the messages of type user in the list
UserMessages == {i \in 1..Len(messages) : messages[i].type = "user"}

\* every update is committed and the session-activity effect has run
SessionSettled == queue = <<>> /\ ~effectPending

\* C18: once a change of the messages of ChatInterface is committed and its
\* effect has run, isSessionActive and the value reported through
\* onSessionStateChange are true exactly if the list holds a message of type
\* user; so they are false after handleNewSession, updateSession, clearMemory.
SessionActivityDerived ==
    SessionSettled => /\ isSessionActive <=> UserMessages # {}
                      /\ reported <=> UserMessages # {}

\* a session that had its message submitted and was then started anew: the
\* list holds the notice only and the session is inactive
SessionActivityDerivedWitness ==
    /\ SessionSettled /\ submitted /\ resets = 1
    /\ Len(messages) = 1 /\ messages[1].content = <<"Started new session">>
    /\ ~isSessionActive /\ ~reported

\* a step in which a handler queues setMessages([])
ResetStep ==
    /\ Len(queue') > Len(queue)
    /\ \E i \in (Len(queue) + 1)..Len(queue') : queue'[i].op = "reset"

\* C29 - Timer cancellation: a reset of the session (handleNewSession,
\* updateSession, a successful clearMemory) cancels the pending removal
\* timers of thinking messages, so that none fires on the list of the new
\* session.
TimerCancelledOnReset == [][ResetStep => removalTimers' = 0]_vars

\* the notices of handleNewSession and updateSession
ResetNotices == {<<"Started new session">>, <<"Switched to session">>}

\* C30 - Session reset: once handleNewSession or updateSession has run after
\* the turn was submitted and everything is rendered, the list holds the
\* notice of the reset and nothing else: no event of the stream started
\* before the reset adds a message afterwards.
ResetClearsMessages ==
    (/\ queue = <<>> /\ submitted /\ UserMessages = {}
     /\ messages # <<>> /\ messages[1].content \in ResetNotices)
        => Len(messages) = 1

-----------------------------------------------------------------------------
(* Provider switch: handleProviderChange of LLMProviderDropdown and of       *)
(* LLMProviderSelector, with onProviderChange = setCurrentProvider and the   *)
(* isSessionActive prop fed from what ChatInterface reports                  *)

Selectors == {"Dropdown", "Selector"}
Providers == {"google_gemini", "openai", "groq", "perplexity"}
CannotSwitch == "Cannot switch provider during an active session"
FailedToSwitch == "Failed to switch provider"

\* ChatInterface reports another session activity: the isSessionActive prop
\* of the provider component changes
SessionStateChange ==
    /\ reported' = ~reported
    /\ lastCall' = {}
    /\ UNCHANGED <<selector, currentProvider, switching, providerError,
                   isSessionActive, effectPending, resets>>

\* handleProviderChange(providerName) up to its await; only the dropdown has
\* the isSessionActive prop and the guard on it
HandleProviderChange(providerName) ==
    /\ switching = ""
    /\ selector = "Dropdown" => providerName # currentProvider
    /\ IF selector = "Dropdown" /\ reported
       THEN /\ providerError' = CannotSwitch
            /\ lastCall' = {"setError"}
            /\ UNCHANGED switching
       ELSE /\ providerError' = "null"
            /\ switching' = providerName
            /\ lastCall' = {"request"}
    /\ UNCHANGED <<selector, currentProvider, sesVars>>

\* the switch request settles and handleProviderChange runs to its end
SwitchSettles ==
    /\ switching # ""
    /\ switching' = ""
    /\ \E outcome \in {"ok", "not ok", "rejected"} :
          IF outcome = "ok"
          THEN /\ currentProvider' = switching
               /\ lastCall' = {"onProviderChange"}
               /\ UNCHANGED providerError
          ELSE /\ providerError' = FailedToSwitch
               /\ lastCall' = {"setError"}
               /\ UNCHANGED currentProvider
    /\ UNCHANGED <<selector, sesVars>>

InitProvider ==
    /\ CtrlInit /\ DecIdle /\ RedIdle /\ SesIdle /\ InIdle /\ AdvIdle
    /\ selector \in Selectors
    /\ currentProvider = "google_gemini" /\ switching = "" /\ providerError = "null"
    /\ lastCall = {}

NextProvider ==
    \/ SessionStateChange /\ UNCHANGED <<ctrlVars, decVars, redVars, inVars, advVars>>
    \/ \E providerName \in Providers :
          HandleProviderChange(providerName) /\ UNCHANGED <<ctrlVars, decVars, redVars, inVars, advVars>>
    \/ SwitchSettles /\ UNCHANGED <<ctrlVars, decVars, redVars, inVars, advVars>>

SpecProvider == InitProvider /\ [][NextProvider]_vars

\* C19: while the session is reported active no step issues a switch request
\* or calls onProviderChange, and the current provider stays as it is: the
\* provider changes only while the session is inactive.
ProviderSwitchRejectedWhileActive ==
    [][reported => /\ lastCall' \cap {"request", "onProviderChange"} = {}
                   /\ currentProvider' = currentProvider]_vars

-----------------------------------------------------------------------------
(* Submission guard of the chat components (EnhancedChatInterface.handleSubmit *)
(* 69-84, ChatInterface.sendMessage 317-341 called by MessageInput 14-19)      *)

\* texts of the input field, as sequences of characters
Inputs == {<<>>, <<" ">>, <<" ", "h">>}

\* onChange of the input field: setInputValue(e.target.value) / setMessage
OnChange(text) ==
    /\ inputValue # text
    /\ inputValue' = text
    /\ UNCHANGED submits

\* the test that lets a submission through with nothing typed
BlockedWhenLoading(content, loading) == loading

\* if (!inputValue.trim() || isLoading) return   (Enhanced 71, Chat 318)
Blocked(content, loading) == TrimSpaces(content) = <<>> \/ loading

\* the updates of Submit with the user message holding the trimmed input
SubmitContent(comp, st, content) ==
    LET s == Submit(comp, st) IN
    [s EXCEPT !.queue =
        [i \in 1..Len(s.queue) |->
            IF s.queue[i].op = "append" /\ s.queue[i].msg.type = "user"
               /\ s.queue[i].msg.id = st.nextId
            THEN [s.queue[i] EXCEPT !.msg.content = content]
            ELSE s.queue[i]]]

\* a submit event reaches handleSubmit / sendMessage: the guard, then the
\* handler up to the first await of createResilientStream; React commits the
\* updates of a discrete event before the next event is handled
SubmitEvent ==
    /\ submits < MaxSubmits
    /\ submits' = submits + 1
    /\ IF Blocked(inputValue, isLoading)
       THEN UNCHANGED <<ctrlVars, redVars, inputValue>>
       ELSE LET before == Rendered(RedState)
                sub == SubmitContent(component, before, TrimSpaces(inputValue))
                st == Rendered(sub)
            IN /\ messages' = st.messages
               /\ queue' = <<>>
               /\ isLoading' = Committed(queue \o sub.queue, "setIsLoading", isLoading)
               /\ nextId' = st.nextId
               /\ thinkingMessage' = st.thinkingMessage
               /\ assistantMessage' = st.assistantMessage
               /\ toolCallMessage' = st.toolCallMessage
               /\ submitted' = TRUE
               /\ inputValue' = <<>>
               /\ UNCHANGED <<component, removalTimers, script, applied>>
               /\ CreateResilientStream

InitSubmit ==
    /\ CtrlInit /\ DecIdle /\ TurnInit /\ ProvIdle /\ InIdle /\ AdvIdle
    /\ script = <<>>

NextSubmit ==
    \/ \E text \in Inputs : OnChange(text) /\ UNCHANGED <<ctrlVars, decVars, redVars, sesVars, provVars, advVars>>
    \/ SubmitEvent /\ UNCHANGED <<decVars, sesVars, provVars, advVars>>
    \/ \E r \in Requests : FetchFails(r) /\ Deliver(r) /\ UNCHANGED <<decVars, sesVars, provVars, inVars, advVars>>
    \/ \E r \in Requests : FetchOk(r) /\ Deliver(r) /\ UNCHANGED <<decVars, sesVars, provVars, inVars, advVars>>
    \/ \E r \in Requests : ReadDone(r) /\ Deliver(r) /\ UNCHANGED <<decVars, sesVars, provVars, inVars, advVars>>
    \/ \E r \in Requests : ReadFails(r) /\ Deliver(r) /\ UNCHANGED <<decVars, sesVars, provVars, inVars, advVars>>
    \/ \E r \in Requests : TimerFires(r) /\ Deliver(r) /\ UNCHANGED <<decVars, sesVars, provVars, inVars, advVars>>
    \/ Render /\ UNCHANGED <<ctrlVars, decVars, sesVars, provVars, inVars, advVars>>

SpecSubmit == InitSubmit /\ [][NextSubmit]_vars

\* the submit event handled in this step found a turn in progress or an input
\* that is empty or all whitespace
BlockedSubmission ==
    /\ submits' = submits + 1
    /\ (isLoading \/ \A i \in 1..Len(inputValue) : inputValue[i] = " ")

\* requests of the hook whose stream has not ended
TurnsInProgress == {r \in Requests : Unfinished(r)}

\* C35 - a submission while isLoading is true, or with an input that is empty
\* or all whitespace, adds no user message, opens no stream and leaves the
\* message list and isLoading unchanged; at most one turn is in progress.
SubmissionGuarded ==
    [][/\ BlockedSubmission => UNCHANGED <<messages, queue, isLoading, nextId, nextReq, pc,
                                           abortControllerRef, inputValue>>
       /\ Cardinality(TurnsInProgress') <= 1]_vars

\* a submission with a text typed has been blocked by the turn in progress
SubmissionGuardedWitness ==
    /\ isLoading /\ submits = 2 /\ nextReq = 2 /\ inputValue = <<" ", "h">>
    /\ Cardinality(UserMessages) = 1 /\ TurnsInProgress = {1}

-----------------------------------------------------------------------------
(* createStreamWithRetry of useAdvancedStreaming (useAIChat.ts 143-209)      *)

\* values of the maxRetries argument (default 3)
RetryArgs == {0, 1, 3, 5}

\* the error an attempt can fail with: "network" (fetch or read rejected),
\* "http" (`HTTP N: text`), "nobody" ('No response body'), "abort" (the
\* rejection of a fetch or read whose signal was aborted)
ErrorKinds == {"network", "http", "nobody", "abort"}

\* err.message.includes('AbortError'): the test reads the message, and the
\* AbortError of an abort() without reason carries that word in its name only
IncludesAbortError(kind, named) == kind = "abort" /\ named

\* a backoff that doubles without a cap
DelayUncapped(count) == 1000 * (2 ^ (count - 1))

\* Math.min(1000 * Math.pow(2, retryCount - 1), 10000)
Delay(count) ==
    IF 1000 * (2 ^ (count - 1)) < 10000 THEN 1000 * (2 ^ (count - 1)) ELSE 10000

\* the else of `if (retryCount < maxRetries && !err.message.includes('AbortError'))`
GivesUp(count, limit, kind, named) == ~(count < limit /\ ~IncludesAbortError(kind, named))

\* attemptConnection() up to its await fetch(url, options), with the
\* connection state st and the local retryCount count
AttemptConnection(st, count) ==
    /\ connectionState' = [st EXCEPT !.status = IF count > 0 THEN "reconnecting" ELSE "connecting",
                                     !.retryCount = count]
    /\ connections' = connections + 1
    /\ attemptPc' = "fetching"

\* the catch of attemptConnection (192-205) for an error of the given kind,
\* with the connection state st
Catch(st, kind) ==
    LET withError == [st EXCEPT !.lastError = kind] IN
    IF GivesUp(retryCount, maxRetriesArg, kind, abortNamed)
    THEN /\ connectionState' = [withError EXCEPT !.status = "disconnected"]
         /\ thrown' = kind
         /\ attemptPc' = "rejected"
         /\ UNCHANGED <<retryCount, delays, connections>>
    ELSE /\ connectionState' = withError
         /\ retryCount' = retryCount + 1
         /\ delays' = Append(delays, Delay(retryCount + 1))
         /\ attemptPc' = "waiting"
         /\ UNCHANGED <<thrown, connections>>

\* createStreamWithRetry(url, options, onData, maxRetries) up to the first await
CreateStreamWithRetry(limit) ==
    /\ attemptPc \in {"idle", "resolved", "rejected"}
    /\ calls < MaxCalls
    /\ calls' = calls + 1
    /\ maxRetriesArg' = limit
    /\ retryCount' = 0
    /\ delays' = <<>>
    /\ thrown' = ""
    /\ signalAborted' = FALSE /\ abortNamed' = FALSE
    /\ connections' = 1
    /\ connectionState' = [connectionState EXCEPT !.status = "connecting", !.retryCount = 0]
    /\ attemptPc' = "fetching"

\* fetch() rejects with a network error
ConnectionFails ==
    /\ attemptPc = "fetching" /\ ~signalAborted
    /\ Catch(connectionState, "network")
    /\ UNCHANGED <<maxRetriesArg, signalAborted, abortNamed, calls>>

\* fetch() resolves with !response.ok
ConnectionRefused ==
    /\ attemptPc = "fetching" /\ ~signalAborted
    /\ Catch(connectionState, "http")
    /\ UNCHANGED <<maxRetriesArg, signalAborted, abortNamed, calls>>

\* fetch() resolves with an ok response: status connected (165), then the
\* reader; a response without body throws 'No response body'
ConnectionOpens ==
    /\ attemptPc = "fetching" /\ ~signalAborted
    /\ LET st == [connectionState EXCEPT !.status = "connected", !.retryCount = 0] IN
       \E body \in BOOLEAN :
          IF body
          THEN /\ connectionState' = st
               /\ attemptPc' = "reading"
               /\ UNCHANGED <<retryCount, delays, connections, thrown>>
          ELSE Catch(st, "nobody")
    /\ UNCHANGED <<maxRetriesArg, signalAborted, abortNamed, calls>>

\* reader.read() rejects: the connection faults mid-stream
StreamFaults ==
    /\ attemptPc = "reading" /\ ~signalAborted
    /\ Catch(connectionState, "network")
    /\ UNCHANGED <<maxRetriesArg, signalAborted, abortNamed, calls>>

\* reader.read() resolves with done: break, attemptConnection returns
StreamEnds ==
    /\ attemptPc = "reading" /\ ~signalAborted
    /\ attemptPc' = "resolved"
    /\ UNCHANGED <<connectionState, retryCount, maxRetriesArg, delays, connections,
                   signalAborted, abortNamed, thrown, calls>>

\* the caller aborts the signal it passed in options; named: the reason it
\* gives has 'AbortError' in its message
AbortSignal(named) ==
    /\ attemptPc \in {"fetching", "reading", "waiting"} /\ ~signalAborted
    /\ signalAborted' = TRUE
    /\ abortNamed' = named
    /\ UNCHANGED <<connectionState, retryCount, maxRetriesArg, attemptPc, delays,
                   connections, thrown, calls>>

\* the fetch or read of an aborted signal rejects with the abort error
AbortRejects ==
    /\ attemptPc \in {"fetching", "reading"} /\ signalAborted
    /\ Catch(connectionState, "abort")
    /\ UNCHANGED <<maxRetriesArg, signalAborted, abortNamed, calls>>

\* the delay has passed: return attemptConnection()
DelayElapses ==
    /\ attemptPc = "waiting"
    /\ AttemptConnection(connectionState, retryCount)
    /\ UNCHANGED <<retryCount, maxRetriesArg, delays, signalAborted, abortNamed, thrown, calls>>

InitRetry == CtrlInit /\ DecIdle /\ RedIdle /\ SesIdle /\ ProvIdle /\ InIdle /\ AdvIdle

NextRetry ==
    \/ \E limit \in RetryArgs :
          CreateStreamWithRetry(limit) /\ UNCHANGED <<ctrlVars, decVars, redVars, sesVars, provVars, inVars>>
    \/ ConnectionFails /\ UNCHANGED <<ctrlVars, decVars, redVars, sesVars, provVars, inVars>>
    \/ ConnectionRefused /\ UNCHANGED <<ctrlVars, decVars, redVars, sesVars, provVars, inVars>>
    \/ ConnectionOpens /\ UNCHANGED <<ctrlVars, decVars, redVars, sesVars, provVars, inVars>>
    \/ StreamFaults /\ UNCHANGED <<ctrlVars, decVars, redVars, sesVars, provVars, inVars>>
    \/ StreamEnds /\ UNCHANGED <<ctrlVars, decVars, redVars, sesVars, provVars, inVars>>
    \/ \E named \in BOOLEAN :
          AbortSignal(named) /\ UNCHANGED <<ctrlVars, decVars, redVars, sesVars, provVars, inVars>>
    \/ AbortRejects /\ UNCHANGED <<ctrlVars, decVars, redVars, sesVars, provVars, inVars>>
    \/ DelayElapses /\ UNCHANGED <<ctrlVars, decVars, redVars, sesVars, provVars, inVars>>

SpecRetry == InitRetry /\ [][NextRetry]_vars

\* C37 - a call of createStreamWithRetry opens at most maxRetries + 1
\* connections, also when connections open and fault mid-stream; the delay
\* before the k-th retry is 1000 * 2^(k-1) ms, at most 10000; a call that
\* has rejected left the status disconnected and threw its last error.
BoundedRetries ==
    /\ connections <= maxRetriesArg + 1
    /\ Len(delays) <= maxRetriesArg
    /\ \A k \in 1..Len(delays) :
          delays[k] = <<1000, 2000, 4000, 8000, 10000, 10000>>[k]
    /\ attemptPc = "rejected" =>
          /\ connectionState.status = "disconnected"
          /\ thrown = connectionState.lastError /\ thrown # ""

\* a call with maxRetries 5 whose connections opened and faulted mid-stream
\* until the retries were used up
BoundedRetriesWitness ==
    /\ attemptPc = "rejected" /\ maxRetriesArg = 5 /\ connections = 6
    /\ delays = <<1000, 2000, 4000, 8000, 10000>>
    /\ thrown = "network" /\ ~signalAborted

\* the attempt in flight fails in this step because its signal was aborted
AbortFailure == signalAborted /\ attemptPc \in {"fetching", "reading"} /\ attemptPc' # attemptPc

\* C38 - a failure caused by aborting the request is terminal: no retry and
\* no delay is scheduled, the status becomes disconnected and the abort error
\* is rethrown.
AbortIsTerminal ==
    [][AbortFailure =>
          /\ attemptPc' = "rejected"
          /\ delays' = delays
          /\ connectionState'.status = "disconnected"
          /\ thrown' = "abort"]_vars

=============================================================================
